---- MODULE Spec2Model ----
(***************************************************************************)
(* Verification model of the BareMetal-Drivers graphics stack:             *)
(*   - the SSD130x 1-bit paged framebuffer encoder (oled_iic_130x.c),      *)
(*   - the SSD132x 4-bit packed framebuffer encoder (oled_iic_132x.c),     *)
(*   - the shape rasterizer (lib/graphic/base) drawing through the         *)
(*     graphics-device operation table.                                    *)
(* Bytes are integers 0..255, coordinates are integers 0..65535; C integer *)
(* promotions, truncating division and narrowing stores are modelled       *)
(* explicitly where the code relies on them.                               *)
(***************************************************************************)
EXTENDS Integers, Naturals, Sequences, FiniteSets, TLC

VARIABLES
    OLED_GRAM,       \* static uint8_t OLED_GRAM[CACHED_HEIGHT][CACHED_WIDTH]
    grey_scale,      \* SSD132XPrivateDatas.grey_scale
    immediate_draw,  \* CFBD_GraphicDevice.immediate_draw
    pre,             \* history: OLED_GRAM before the last operation
    last,            \* history: the last operation, its arguments and result
    acc,             \* history: largest row/column index used on OLED_GRAM
    tx,              \* history: transport transfers issued by the last operation
    calls,           \* history: device-table calls made by the last shape
    nops,            \* number of operations performed so far
    oled,            \* the CFBD_OLED structure: ops, driver_type, oled_internal_handle
    device,          \* CFBD_GraphicDevice: ops, device_type, internal_handle
    bus,             \* status the next CFBD_I2CTransfer calls return
    direct           \* history: the encoder driven directly with the facade's calls

vars == <<OLED_GRAM, grey_scale, immediate_draw, pre, last, acc, tx, calls, nops,
          oled, device, bus, direct>>

\* the handles and the transport, which the cache operations never write
wiring == <<oled, device, bus, direct>>

----------------------------------------------------------------------------
(* Bounds of the model *)

\* encoder operations in one behaviour
MaxOps == 2

\* rasterizer operations in one behaviour
MaxShapes == 1

----------------------------------------------------------------------------
(* Program constants *)

UINT16_MAX == 65535

\* status codes of CFBD_I2CTransfer
I2C_OK == 0
I2C_ERR_TIMEOUT == -110
I2C_ERR_NACK == -121
I2C_ERR_BUSY == -16
I2C_ERR_IO == -5
I2C_ERR_INVAL == -22

\* cache_config-ssd130x.h (documented values of the paged cache)
CACHED_HEIGHT_130x == 8
CACHED_WIDTH_130x == 144

\* cache_config-ssd132x.h
CACHED_HEIGHT_132x == 96
CACHED_WIDTH_132x == 64

\* ssd1309.c: the descriptor of the 1bpp panel
ssd1309_logic_width == 128
ssd1309_logic_height == 64
ssd1309_cmd_prefix == 0
ssd1309_data_prefix == 64

\* ssd1327.c: the descriptor of the 4bpp panel
ssd1327_logic_width == 128
ssd1327_logic_height == 96
ssd1327_grey_scale == 5
ssd1327_cmd_prefix == 0
ssd1327_data_prefix == 64

----------------------------------------------------------------------------
(* C arithmetic *)

Max(a, b) == IF a > b THEN a ELSE b
Min(a, b) == IF a < b THEN a ELSE b

\* C99 integer division truncates toward zero
CDiv(a, b) ==
    LET q == (IF a >= 0 THEN a ELSE -a) \div (IF b >= 0 THEN b ELSE -b)
    IN IF (a >= 0) = (b >= 0) THEN q ELSE -q

Pow2(k) == 2 ^ k
Bit(v, k) == (v \div Pow2(k)) % 2

BitOr(a, b) ==
    LET f(k) == IF Bit(a, k) = 1 \/ Bit(b, k) = 1 THEN Pow2(k) ELSE 0
    IN f(0) + f(1) + f(2) + f(3) + f(4) + f(5) + f(6) + f(7)

BitAnd(a, b) ==
    LET f(k) == IF Bit(a, k) = 1 /\ Bit(b, k) = 1 THEN Pow2(k) ELSE 0
    IN f(0) + f(1) + f(2) + f(3) + f(4) + f(5) + f(6) + f(7)

BitXor(a, b) ==
    LET f(k) == IF Bit(a, k) # Bit(b, k) THEN Pow2(k) ELSE 0
    IN f(0) + f(1) + f(2) + f(3) + f(4) + f(5) + f(6) + f(7)

\* narrowing conversions
U8(v) == v % 256
U16(v) == v % 65536

----------------------------------------------------------------------------
(* The cache as a C array: a run of an encoder operation threads a record  *)
(* m through its statements; m.g is the array, m.ar / m.ac the largest row *)
(* and column subscripts used so far, m.tx the transfers issued.           *)

ZeroGram(W, H) == [r \in 0..(H - 1) |-> [c \in 0..(W - 1) |-> 0]]

Mach(g, W, H) ==
    [g |-> g, W |-> W, H |-> H, ar |-> -1, ac |-> -1, tx |-> <<>>,
     ret |-> TRUE, halt |-> FALSE]

\* OLED_GRAM[r][c] as an rvalue.  A subscript past the row end addresses the
\* following row of the same array (row-major layout); past the array it is
\* foreign memory, read as 0 here.
Peek(m, r, c) ==
    LET f == r * m.W + c
    IN IF f < m.W * m.H THEN m.g[f \div m.W][f % m.W] ELSE 0

\* OLED_GRAM[r][c] = v
Poke(m, r, c, v) ==
    LET f == r * m.W + c
    IN [m EXCEPT !.g = IF f < m.W * m.H
                       THEN [@ EXCEPT ![f \div m.W][f % m.W] = v]
                       ELSE @,
                 !.ar = Max(@, r),
                 !.ac = Max(@, c)]

\* a read of OLED_GRAM[r][c]
Touch(m, r, c) == [m EXCEPT !.ar = Max(@, r), !.ac = Max(@, c)]

\* the call has not returned yet
Running(m) == ~m.halt

\* return v;
Ret(m, v) == [m EXCEPT !.ret = v, !.halt = TRUE]

\* one CFBD_I2CTransfer of a command byte behind the command prefix
CmdXfer(prefix, v) ==
    [kind |-> "cmd", prefix |-> prefix, row |-> -1, col |-> -1, bytes |-> <<v>>]

\* one CFBD_I2CTransfer of cache bytes behind the data prefix
DataXfer(prefix, r, c, bs) ==
    [kind |-> "data", prefix |-> prefix, row |-> r, col |-> c, bytes |-> bs]

Emit(m, x) == [m EXCEPT !.tx = Append(@, x)]

----------------------------------------------------------------------------
(* Source buffers handed to setArea: the caller's pre-encoded bytes.       *)

SrcByte(src, k) ==
    CASE src = "ones" -> 255
      [] src = "low"  -> 1
      [] src = "high" -> 128
      [] OTHER        -> (k * 77 + 165) % 256

----------------------------------------------------------------------------
(* SSD130x 1-bit paged encoder: lib/oled/driver/backend/oled_iic_130x.c    *)

\* for (i = 0; i < len; i++): one transfer per byte data[i] = OLED_GRAM[r][c + i];
\* the transfers do not change the cache, so the loop is written as the
\* sequence of its len transfers
send_data_130x(m, r, c, len) ==
    IF len = 0 THEN m
    ELSE [Touch(m, r, c + len - 1) EXCEPT
             !.tx = @ \o [k \in 1..len |->
                              DataXfer(ssd1309_data_prefix, r, c + k - 1,
                                       <<Peek(m, r, c + k - 1)>>)]]

send_cmd_130x(m, cmd) == Emit(m, CmdXfer(ssd1309_cmd_prefix, cmd))

\* mutation: the low column nibble is sent before the high one
pvt_oled_set_cursor_lowfirst(m, y, x) ==
    LET m1 == send_cmd_130x(m, BitOr(176, U8(y)))
        m2 == send_cmd_130x(m1, BitAnd(U8(x), 15))
    IN send_cmd_130x(m2, BitOr(16, BitAnd(U8(x), 240) \div 16))

pvt_oled_set_cursor(m, y, x) ==
    LET m1 == send_cmd_130x(m, BitOr(176, U8(y)))
        m2 == send_cmd_130x(m1, BitOr(16, BitAnd(U8(x), 240) \div 16))
    IN send_cmd_130x(m2, BitAnd(U8(x), 15))

\* mutation: the pixel's byte is assigned instead of OR-ed
setPixel_130x_assign(m, x, y) ==
    IF x < ssd1309_logic_width /\ y < ssd1309_logic_height
    THEN Ret(Poke(m, y \div 8, x, U8(Pow2(y % 8))), TRUE)
    ELSE Ret(m, TRUE)

setPixel_130x(m, x, y) ==
    IF x < ssd1309_logic_width /\ y < ssd1309_logic_height
    THEN Ret(Poke(m, y \div 8, x, BitOr(Peek(m, y \div 8, x), U8(Pow2(y % 8)))), TRUE)
    ELSE Ret(m, TRUE)

\* mutation: clear also switches the panel off over the transport
clear_130x_sends(m) ==
    Ret(send_cmd_130x([m EXCEPT !.g = ZeroGram(m.W, m.H), !.ar = m.H - 1,
                                !.ac = m.W - 1], 174), TRUE)

\* memset(OLED_GRAM, 0, sizeof(OLED_GRAM))
clear_130x(m) ==
    Ret([m EXCEPT !.g = ZeroGram(m.W, m.H), !.ar = m.H - 1, !.ac = m.W - 1], TRUE)

RECURSIVE update_loop_130x(_, _)
update_loop_130x(m, j) ==
    IF Running(m) /\ j < CACHED_HEIGHT_130x
    THEN update_loop_130x(
             send_data_130x(pvt_oled_set_cursor(m, j, 0), j, 0, ssd1309_logic_width),
             U8(j + 1))
    ELSE m

update_130x(m) == Ret(update_loop_130x(m, 0), TRUE)

\* mutation: the whole byte of the pixel is zeroed
clear_bit_130x_byte(b, i) == 0

\* OLED_GRAM[i / 8][j] &= ~(0x01 << (i % 8))
clear_bit_130x(b, i) == BitAnd(b, 255 - Pow2(i % 8))

RECURSIVE clear_cols_130x(_, _, _, _)
clear_cols_130x(m, i, j, jend) ==
    IF Running(m) /\ j < jend
    THEN clear_cols_130x(
             Poke(m, i \div 8, j, clear_bit_130x(Peek(m, i \div 8, j), i)),
             i, U8(j + 1), jend)
    ELSE m

RECURSIVE clear_rows_130x(_, _, _, _, _)
clear_rows_130x(m, i, iend, x, xend) ==
    IF Running(m) /\ i < iend
    THEN clear_rows_130x(clear_cols_130x(m, i, U8(x), xend), U8(i + 1), iend, x, xend)
    ELSE m

oled_helper_clear_area_130x(m, x, y, width0, height0) ==
    IF x >= ssd1309_logic_width THEN Ret(m, FALSE)
    ELSE IF y >= ssd1309_logic_height THEN Ret(m, FALSE)
    ELSE LET width == IF x + width0 > ssd1309_logic_width
                      THEN ssd1309_logic_width - x ELSE width0
             height == IF y + height0 > ssd1309_logic_height
                       THEN ssd1309_logic_height - y ELSE height0
         IN Ret(clear_rows_130x(m, U8(y), y + height, x, x + width), TRUE)

\* mutation: the part for the current page is shifted towards bit 0
draw_cur_page_130x_right(s, y) == s \div Pow2(y % 8)

\* sources[..] << (y % 8), stored into a uint8_t
draw_cur_page_130x(s, y) == U8(s * Pow2(y % 8))

\* mutation: the carry into the next page is shifted by y % 8
draw_next_page_130x_shift(s, y) == s \div Pow2(y % 8)

\* sources[..] >> (8 - y % 8)
draw_next_page_130x(s, y) == s \div Pow2(8 - (y % 8))

RECURSIVE draw_cols_130x(_, _, _, _, _, _, _)
draw_cols_130x(m, x, y, width, src, j, i) ==
    IF Running(m) /\ i < width
    THEN IF x + i > CACHED_WIDTH_130x
         THEN m                                     \* break
         ELSE IF y \div 8 + j > CACHED_HEIGHT_130x - 1
         THEN Ret(m, TRUE)                          \* return CFBD_TRUE
         ELSE LET s == SrcByte(src, j * width + i)
                  m1 == Poke(m, y \div 8 + j, x + i,
                             BitOr(Peek(m, y \div 8 + j, x + i), draw_cur_page_130x(s, y)))
              IN IF y \div 8 + j + 1 > CACHED_HEIGHT_130x - 1
                 THEN draw_cols_130x(m1, x, y, width, src, j, U16(i + 1))   \* continue
                 ELSE draw_cols_130x(
                          Poke(m1, y \div 8 + j + 1, x + i,
                               BitOr(Peek(m1, y \div 8 + j + 1, x + i),
                                     draw_next_page_130x(s, y))),
                          x, y, width, src, j, U16(i + 1))
    ELSE m

RECURSIVE draw_pages_130x(_, _, _, _, _, _, _)
draw_pages_130x(m, x, y, width, height, src, j) ==
    IF Running(m) /\ j < CDiv(height - 1, 8) + 1
    THEN draw_pages_130x(draw_cols_130x(m, x, y, width, src, j, 0),
                         x, y, width, height, src, U16(j + 1))
    ELSE m

oled_helper_draw_area_130x(m, x, y, width, height, src) ==
    IF x >= ssd1309_logic_width THEN Ret(m, FALSE)
    ELSE IF y >= ssd1309_logic_height THEN Ret(m, FALSE)
    ELSE LET m1 == [oled_helper_clear_area_130x(m, x, y, width, height)
                       EXCEPT !.halt = FALSE]
         IN Ret(draw_pages_130x(m1, x, y, width, height, src, 0), TRUE)

RECURSIVE update_area_loop_130x(_, _, _, _, _)
update_area_loop_130x(m, i, iend, x, width) ==
    IF Running(m) /\ i < iend
    THEN update_area_loop_130x(
             send_data_130x(pvt_oled_set_cursor(m, i, x), i, x, width),
             U8(i + 1), iend, x, width)
    ELSE m

oled_helper_update_area_130x(m, x, y, width0, height0) ==
    IF x >= ssd1309_logic_width THEN Ret(m, FALSE)
    ELSE IF y >= ssd1309_logic_height THEN Ret(m, FALSE)
    ELSE LET width == IF x + width0 > ssd1309_logic_width
                      THEN ssd1309_logic_width - x ELSE width0
             height == IF y + height0 > ssd1309_logic_height
                       THEN ssd1309_logic_height - y ELSE height0
         IN Ret(update_area_loop_130x(m, U8(y \div 8), CDiv(y + height - 1, 8) + 1,
                                      x, width), TRUE)

oled_helper_reverse_130x(m) ==
    Ret([m EXCEPT !.g = [i \in 0..(CACHED_HEIGHT_130x - 1) |->
                            [j \in 0..(CACHED_WIDTH_130x - 1) |-> BitXor(m.g[i][j], 255)]],
                  !.ar = CACHED_HEIGHT_130x - 1,
                  !.ac = CACHED_WIDTH_130x - 1], TRUE)

RECURSIVE reverse_cols_130x(_, _, _, _)
reverse_cols_130x(m, i, j, jend) ==
    IF Running(m) /\ j < jend
    THEN reverse_cols_130x(
             Poke(m, i \div 8, j, BitXor(Peek(m, i \div 8, j), Pow2(i % 8))),
             i, U16(j + 1), jend)
    ELSE m

RECURSIVE reverse_rows_130x(_, _, _, _, _)
reverse_rows_130x(m, i, iend, x, xend) ==
    IF Running(m) /\ i < iend
    THEN reverse_rows_130x(reverse_cols_130x(m, i, x, xend), U16(i + 1), iend, x, xend)
    ELSE m

oled_helper_reversearea_130x(m, x, y, width0, height0) ==
    IF x > ssd1309_logic_width THEN Ret(m, FALSE)
    ELSE IF y > ssd1309_logic_height THEN Ret(m, FALSE)
    ELSE LET width == IF x + width0 > ssd1309_logic_width
                      THEN ssd1309_logic_width - x ELSE width0
             height == IF y + height0 > ssd1309_logic_height
                       THEN ssd1309_logic_height - y ELSE height0
         IN Ret(reverse_rows_130x(m, y, y + height, x, x + width), TRUE)

----------------------------------------------------------------------------
(* SSD132x 4-bit packed encoder: lib/oled/driver/backend/oled_iic_132x.c   *)

send_cmd_132x(m, cmd) == Emit(m, CmdXfer(ssd1327_cmd_prefix, cmd))

\* one transfer: the data prefix, then len bytes starting at &OLED_GRAM[r][c]
send_data_132x(m, r, c, len) ==
    Emit(IF len = 0 THEN m ELSE Touch(m, r, c + len - 1),
         DataXfer(ssd1327_data_prefix, r, c, [k \in 1..len |-> Peek(m, r, c + k - 1)]))

set_window(m, col_start, col_end, row_start, row_end) ==
    LET m1 == send_cmd_132x(m, 21)
        m2 == send_cmd_132x(m1, col_start)
        m3 == send_cmd_132x(m2, col_end)
        m4 == send_cmd_132x(m3, 117)
        m5 == send_cmd_132x(m4, row_start)
    IN send_cmd_132x(m5, row_end)

\* mutation: the even pixel's byte is written without keeping the low nibble
setPixel_132x_nokeep(m, x, y, color) ==
    IF x >= ssd1327_logic_width \/ y >= ssd1327_logic_height
    THEN Ret(m, FALSE)
    ELSE LET col == U8(x \div 2)
             pixel_pos == U8(x % 2)
         IN IF pixel_pos = 0
            THEN Ret(Poke(m, y, col, U8(color * 16)), TRUE)
            ELSE Ret(Poke(m, y, col, U8(BitOr(BitAnd(Peek(m, y, col), 240), color))), TRUE)

setPixel_132x(m, x, y, color) ==
    IF x >= ssd1327_logic_width \/ y >= ssd1327_logic_height
    THEN Ret(m, FALSE)
    ELSE LET col == U8(x \div 2)
             pixel_pos == U8(x % 2)
         IN IF pixel_pos = 0
            THEN Ret(Poke(m, y, col, U8(BitOr(BitAnd(Peek(m, y, col), 15), color * 16))), TRUE)
            ELSE Ret(Poke(m, y, col, U8(BitOr(BitAnd(Peek(m, y, col), 240), color))), TRUE)

\* memset(OLED_GRAM, 0x00, sizeof(OLED_GRAM))
clear_132x(m) ==
    Ret([m EXCEPT !.g = ZeroGram(m.W, m.H), !.ar = m.H - 1, !.ac = m.W - 1], TRUE)

RECURSIVE update_loop_132x(_, _)
update_loop_132x(m, row) ==
    IF Running(m) /\ row < CACHED_HEIGHT_132x
    THEN update_loop_132x(send_data_132x(m, row, 0, CACHED_WIDTH_132x), U8(row + 1))
    ELSE m

update_132x(m) ==
    Ret(update_loop_132x(
            set_window(m, 0, CACHED_WIDTH_132x - 1, 0, CACHED_HEIGHT_132x - 1), 0), TRUE)

RECURSIVE clear_cols_132x(_, _, _, _, _)
clear_cols_132x(m, x, y, width, i) ==
    IF Running(m) /\ i < width
    THEN LET dst_col == U16((x + i) \div 2)
             dst_pixel == U8((x + i) % 2)
         IN clear_cols_132x(
                IF dst_pixel = 0
                THEN Poke(m, y, dst_col, BitAnd(Peek(m, y, dst_col), 15))
                ELSE Poke(m, y, dst_col, BitAnd(Peek(m, y, dst_col), 240)),
                x, y, width, U16(i + 1))
    ELSE m

RECURSIVE clear_rows_132x(_, _, _, _, _, _)
clear_rows_132x(m, x, y, width, height, j) ==
    IF Running(m) /\ j < height
    THEN clear_rows_132x(clear_cols_132x(m, x, y + j, width, 0),
                         x, y, width, height, U16(j + 1))
    ELSE m

oled_helper_clear_area_132x(m, x, y, width0, height0) ==
    IF x >= ssd1327_logic_width \/ y >= ssd1327_logic_height
    THEN Ret(m, FALSE)
    ELSE LET width == IF x + width0 > ssd1327_logic_width
                      THEN ssd1327_logic_width - x ELSE width0
             height == IF y + height0 > ssd1327_logic_height
                       THEN ssd1327_logic_height - y ELSE height0
         IN Ret(clear_rows_132x(m, x, y, width, height, 0), TRUE)

RECURSIVE draw_rows_132x(_, _, _, _, _, _, _, _, _)
draw_rows_132x(m, x, y, width, draw_h, src, color, i, j) ==
    IF Running(m) /\ j < draw_h
    THEN LET src_byte_idx == U16((j \div 8) * width + i)
             src_bit_idx == U8(j % 8)
             bit == Bit(SrcByte(src, src_byte_idx), src_bit_idx)
             pixel_value == IF bit = 0 THEN 0 ELSE color
             curr_x == U16(x + i)
             curr_y == U16(y + j)
             dst_col == U16(curr_x \div 2)
         IN draw_rows_132x(
                IF curr_x % 2 = 0
                THEN Poke(m, curr_y, dst_col,
                          U8(BitOr(BitAnd(Peek(m, curr_y, dst_col), 15), pixel_value * 16)))
                ELSE Poke(m, curr_y, dst_col,
                          U8(BitOr(BitAnd(Peek(m, curr_y, dst_col), 240), pixel_value))),
                x, y, width, draw_h, src, color, i, U16(j + 1))
    ELSE m

RECURSIVE draw_cols_132x(_, _, _, _, _, _, _, _, _)
draw_cols_132x(m, x, y, width, draw_w, draw_h, src, color, i) ==
    IF Running(m) /\ i < draw_w
    THEN draw_cols_132x(draw_rows_132x(m, x, y, width, draw_h, src, color, i, 0),
                        x, y, width, draw_w, draw_h, src, color, U16(i + 1))
    ELSE m

oled_helper_draw_area_132x(m, x, y, width, height, src, color) ==
    IF x >= ssd1327_logic_width \/ y >= ssd1327_logic_height
    THEN Ret(m, FALSE)
    ELSE LET draw_w == IF x + width > ssd1327_logic_width
                       THEN ssd1327_logic_width - x ELSE width
             draw_h == IF y + height > ssd1327_logic_height
                       THEN ssd1327_logic_height - y ELSE height
         IN Ret(draw_cols_132x(m, x, y, width, draw_w, draw_h, src, color, 0), TRUE)

\* uint8_t col_start = x / 2
update_area_col_start(x) == U8(x \div 2)

\* mutation: the last column is taken one pixel too far
update_area_col_end_past(x, width) == U8(CDiv(x + width, 2))

\* uint8_t col_end = (x + width - 1) / 2
update_area_col_end(x, width) == U8(CDiv(x + width - 1, 2))

RECURSIVE update_area_loop_132x(_, _, _, _, _)
update_area_loop_132x(m, row, rend, col_start, col_end) ==
    IF Running(m) /\ row < rend
    THEN update_area_loop_132x(
             send_data_132x(m, row, col_start, U16(col_end - col_start + 1)),
             U16(row + 1), rend, col_start, col_end)
    ELSE m

oled_helper_update_area_132x(m, x, y, width0, height0) ==
    IF x >= ssd1327_logic_width THEN Ret(m, FALSE)
    ELSE IF y >= ssd1327_logic_height THEN Ret(m, FALSE)
    ELSE LET width == IF x + width0 > ssd1327_logic_width
                      THEN ssd1327_logic_width - x ELSE width0
             height == IF y + height0 > ssd1327_logic_height
                       THEN ssd1327_logic_height - y ELSE height0
             col_start == update_area_col_start(x)
             col_end == update_area_col_end(x, width)
             m1 == set_window(m, col_start, col_end, U8(y), U8(y + height - 1))
         IN Ret(update_area_loop_132x(m1, y, y + height, col_start, col_end), TRUE)

oled_helper_reverse_132x(m) ==
    Ret([m EXCEPT !.g = [i \in 0..(CACHED_HEIGHT_132x - 1) |->
                            [j \in 0..(CACHED_WIDTH_132x - 1) |->
                                BitOr(BitAnd(255 - m.g[i][j], 240),
                                      BitAnd(255 - m.g[i][j], 15))]],
                  !.ar = CACHED_HEIGHT_132x - 1,
                  !.ac = CACHED_WIDTH_132x - 1], TRUE)

RECURSIVE reverse_cols_132x(_, _, _, _)
reverse_cols_132x(m, j, i, iend) ==
    IF Running(m) /\ i < iend
    THEN LET col == U8(i \div 2)
             pixel_pos == U8(i % 2)
         IN reverse_cols_132x(
                IF pixel_pos = 0
                THEN Poke(m, j, col, BitXor(Peek(m, j, col), 240))
                ELSE Poke(m, j, col, BitXor(Peek(m, j, col), 15)),
                j, U16(i + 1), iend)
    ELSE m

RECURSIVE reverse_rows_132x(_, _, _, _, _)
reverse_rows_132x(m, j, jend, x, xend) ==
    IF Running(m) /\ j < jend
    THEN reverse_rows_132x(reverse_cols_132x(m, j, x, xend), U16(j + 1), jend, x, xend)
    ELSE m

oled_helper_reversearea_132x(m, x, y, width0, height0) ==
    IF x >= ssd1327_logic_width THEN Ret(m, FALSE)
    ELSE IF y >= ssd1327_logic_height THEN Ret(m, FALSE)
    ELSE LET width == IF x + width0 > ssd1327_logic_width
                      THEN ssd1327_logic_width - x ELSE width0
             height == IF y + height0 > ssd1327_logic_height
                       THEN ssd1327_logic_height - y ELSE height0
         IN Ret(reverse_rows_132x(m, y, y + height, x, x + width), TRUE)

\* iic_sets, property "color"
iic_sets_color(v) == BitAnd(v, 15)

----------------------------------------------------------------------------
(* State machine of one encoder: every action is one call through the      *)
(* operation table iic_ops, applied to the static cache.                   *)

\* a CFBD_OLED structure the factory has not populated: every field holds
\* whatever the caller's storage held
UnboundOLED ==
    [ops |-> "indeterminate", driver_type |-> "indeterminate",
     oled_internal_handle |-> "indeterminate"]

CFBD_OLED_IIC130XInit(handle, pvt_handle) ==
    [handle EXCEPT !.oled_internal_handle = pvt_handle,
                   !.driver_type = "CFBD_OLEDDriverType_IIC",
                   !.ops = "iic_ops_130x"]

CFBD_OLED_IIC132XInit(handle, pvt_handle) ==
    [handle EXCEPT !.oled_internal_handle = pvt_handle,
                   !.driver_type = "CFBD_OLEDDriverType_IIC",
                   !.ops = "iic_ops_132x"]

\* a CFBD_GraphicDevice nothing has been bound to
UnboundDevice ==
    [ops |-> "indeterminate", device_type |-> "indeterminate",
     internal_handle |-> "indeterminate"]

\* if (device == NULL || oled == NULL || oled->ops == NULL) return;
CFBDGraphic_BindOLEDAsDevice(dev, internal_handle, o) ==
    IF internal_handle = "NULL" \/ o.ops = "NULL" THEN dev
    ELSE [dev EXCEPT !.ops = "graphic_oled_ops",
                     !.device_type = "OLED",
                     !.internal_handle = internal_handle]

\* status: what CFBD_I2CTransfer answered to the transfers of the call
NoOp ==
    [op |-> "none", x |-> 0, y |-> 0, w |-> 0, h |-> 0, src |-> "none", ret |-> TRUE,
     status |-> I2C_OK]

Op(name, x, y, w, h, src, ret) ==
    [op |-> name, x |-> x, y |-> y, w |-> w, h |-> h, src |-> src, ret |-> ret,
     status |-> bus]

\* the effect of one finished encoder call on the state
Finish(name, x, y, w, h, src, m) ==
    /\ nops < MaxOps
    /\ nops' = nops + 1
    /\ pre' = OLED_GRAM
    /\ OLED_GRAM' = m.g
    /\ acc' = [row |-> m.ar, col |-> m.ac]
    /\ tx' = m.tx
    /\ last' = Op(name, x, y, w, h, src, m.ret)
    /\ UNCHANGED <<grey_scale, immediate_draw, calls, wiring>>

\* arguments offered to the 1bpp encoder
PixelArgs130x == {0, 5, 127, 128} \X {0, 3, 63, 64}

ClearArgs130x ==
    ({0, 5} \X {0, 3} \X {1, 3} \X {1, 9})
    \cup {<<5, 3, 0, 1>>, <<5, 3, 1, 0>>, <<126, 60, 65535, 65535>>,
          <<128, 0, 1, 1>>, <<0, 64, 1, 1>>, <<127, 63, 1, 1>>}

AreaArgs130x ==
    ({0, 5} \X {0, 3, 56} \X {1, 2} \X {8})
    \cup {<<5, 3, 2, 16>>, <<5, 3, 2, 5>>, <<126, 60, 3, 8>>, <<126, 3, 19, 8>>,
          <<127, 60, 65535, 65535>>, <<128, 0, 1, 8>>, <<0, 64, 1, 8>>, <<5, 3, 2, 0>>}

Sources == {"ones", "mix"}

UpdateArgs130x ==
    {<<0, 0, 1, 1>>, <<5, 3, 3, 9>>, <<5, 3, 2, 0>>, <<5, 8, 2, 0>>, <<5, 3, 0, 2>>,
     <<126, 60, 65535, 65535>>, <<128, 0, 1, 1>>, <<0, 64, 1, 1>>, <<127, 63, 1, 1>>}

RevertArgs130x ==
    {<<0, 0, 1, 1>>, <<5, 3, 3, 9>>, <<5, 3, 0, 1>>, <<126, 60, 65535, 65535>>,
     <<128, 0, 1, 1>>, <<0, 64, 1, 1>>, <<129, 0, 1, 1>>, <<127, 63, 1, 1>>}

M130x == Mach(OLED_GRAM, CACHED_WIDTH_130x, CACHED_HEIGHT_130x)

Init130x ==
    /\ OLED_GRAM = ZeroGram(CACHED_WIDTH_130x, CACHED_HEIGHT_130x)
    /\ grey_scale = 0
    /\ immediate_draw = FALSE
    /\ pre = OLED_GRAM
    /\ last = NoOp
    /\ acc = [row |-> -1, col |-> -1]
    /\ tx = <<>>
    /\ calls = <<>>
    /\ nops = 0
    /\ oled = CFBD_OLED_IIC130XInit(UnboundOLED, "ssd1309")
    /\ device = UnboundDevice
    /\ bus = I2C_OK
    /\ direct = <<>>

SetPixel130x ==
    \E a \in PixelArgs130x :
        Finish("setPixel", a[1], a[2], 0, 0, "none", setPixel_130x(M130x, a[1], a[2]))

Clear130x == Finish("clear", 0, 0, 0, 0, "none", clear_130x(M130x))

Update130x == Finish("update", 0, 0, 0, 0, "none", update_130x(M130x))

Revert130x == Finish("revert", 0, 0, 0, 0, "none", oled_helper_reverse_130x(M130x))

ClearArea130x ==
    \E a \in ClearArgs130x :
        Finish("clear_area", a[1], a[2], a[3], a[4], "none",
               oled_helper_clear_area_130x(M130x, a[1], a[2], a[3], a[4]))

SetArea130x ==
    \E a \in AreaArgs130x, src \in Sources :
        Finish("setArea", a[1], a[2], a[3], a[4], src,
               oled_helper_draw_area_130x(M130x, a[1], a[2], a[3], a[4], src))

UpdateArea130x ==
    \E a \in UpdateArgs130x :
        Finish("update_area", a[1], a[2], a[3], a[4], "none",
               oled_helper_update_area_130x(M130x, a[1], a[2], a[3], a[4]))

RevertArea130x ==
    \E a \in RevertArgs130x :
        Finish("revert_area", a[1], a[2], a[3], a[4], "none",
               oled_helper_reversearea_130x(M130x, a[1], a[2], a[3], a[4]))

Next130x ==
    \/ SetPixel130x
    \/ Clear130x
    \/ Update130x
    \/ Revert130x
    \/ ClearArea130x
    \/ SetArea130x
    \/ UpdateArea130x
    \/ RevertArea130x

Spec == Init130x /\ [][Next130x]_vars

TypeOK130x ==
    /\ DOMAIN OLED_GRAM = 0..(CACHED_HEIGHT_130x - 1)
    /\ \A r \in DOMAIN OLED_GRAM : \A c \in DOMAIN OLED_GRAM[r] : OLED_GRAM[r][c] \in 0..255

----------------------------------------------------------------------------
(* State machine of the 4bpp encoder                                       *)

PixelArgs132x == {0, 1, 127, 128} \X {0, 95, 96}

ClearArgs132x ==
    {<<0, 0, 1, 1>>, <<1, 0, 1, 1>>, <<1, 0, 2, 2>>, <<126, 94, 65535, 65535>>,
     <<128, 0, 1, 1>>, <<0, 96, 1, 1>>}

AreaArgs132x ==
    {<<0, 0, 1, 8>>, <<1, 0, 2, 8>>, <<1, 95, 3, 9>>, <<126, 94, 65535, 65535>>,
     <<128, 0, 1, 8>>, <<0, 96, 1, 8>>}

UpdateArgs132x ==
    ({0, 1} \X {0} \X {0, 1, 2, 3} \X {1})
    \cup {<<1, 0, 2, 0>>, <<4, 94, 0, 3>>, <<125, 94, 65535, 65535>>,
          <<128, 0, 1, 1>>, <<0, 96, 1, 1>>}

RevertArgs132x ==
    {<<0, 0, 1, 1>>, <<1, 0, 2, 2>>, <<126, 94, 65535, 65535>>,
     <<128, 0, 1, 1>>, <<0, 96, 1, 1>>}

ColorArgs == {0, 5, 15, 167}

M132x == Mach(OLED_GRAM, CACHED_WIDTH_132x, CACHED_HEIGHT_132x)

Init132x ==
    /\ OLED_GRAM = ZeroGram(CACHED_WIDTH_132x, CACHED_HEIGHT_132x)
    /\ grey_scale = ssd1327_grey_scale
    /\ immediate_draw = FALSE
    /\ pre = OLED_GRAM
    /\ last = NoOp
    /\ acc = [row |-> -1, col |-> -1]
    /\ tx = <<>>
    /\ calls = <<>>
    /\ nops = 0
    /\ oled = CFBD_OLED_IIC132XInit(UnboundOLED, "ssd1327")
    /\ device = UnboundDevice
    /\ bus = I2C_OK
    /\ direct = <<>>

SetPixel132x ==
    \E a \in PixelArgs132x :
        Finish("setPixel", a[1], a[2], 0, 0, "none",
               setPixel_132x(M132x, a[1], a[2], grey_scale))

Clear132x == Finish("clear", 0, 0, 0, 0, "none", clear_132x(M132x))

Update132x == Finish("update", 0, 0, 0, 0, "none", update_132x(M132x))

Revert132x == Finish("revert", 0, 0, 0, 0, "none", oled_helper_reverse_132x(M132x))

ClearArea132x ==
    \E a \in ClearArgs132x :
        Finish("clear_area", a[1], a[2], a[3], a[4], "none",
               oled_helper_clear_area_132x(M132x, a[1], a[2], a[3], a[4]))

SetArea132x ==
    \E a \in AreaArgs132x, src \in Sources :
        Finish("setArea", a[1], a[2], a[3], a[4], src,
               oled_helper_draw_area_132x(M132x, a[1], a[2], a[3], a[4], src, grey_scale))

UpdateArea132x ==
    \E a \in UpdateArgs132x :
        Finish("update_area", a[1], a[2], a[3], a[4], "none",
               oled_helper_update_area_132x(M132x, a[1], a[2], a[3], a[4]))

RevertArea132x ==
    \E a \in RevertArgs132x :
        Finish("revert_area", a[1], a[2], a[3], a[4], "none",
               oled_helper_reversearea_132x(M132x, a[1], a[2], a[3], a[4]))

\* self_property_setter("color", &v)
SetColor132x ==
    \E v \in ColorArgs :
        /\ nops < MaxOps
        /\ nops' = nops + 1
        /\ grey_scale' = iic_sets_color(v)
        /\ pre' = OLED_GRAM
        /\ last' = Op("set_color", v, 0, 0, 0, "none", TRUE)
        /\ acc' = [row |-> M132x.ar, col |-> M132x.ac]
        /\ tx' = M132x.tx
        /\ UNCHANGED <<OLED_GRAM, immediate_draw, calls, wiring>>

Next132x ==
    \/ SetPixel132x
    \/ Clear132x
    \/ Update132x
    \/ Revert132x
    \/ ClearArea132x
    \/ SetArea132x
    \/ UpdateArea132x
    \/ RevertArea132x
    \/ SetColor132x

Spec132x == Init132x /\ [][Next132x]_vars

----------------------------------------------------------------------------
(* Properties of the 1-bit paged encoder                                   *)

Rows130x == 0..(CACHED_HEIGHT_130x - 1)
Cols130x == 0..(CACHED_WIDTH_130x - 1)

\* pixel (px, py) of a paged cache
Pixel130x(g, px, py) == Bit(g[py \div 8][px], py % 8)

\* (px, py) lies in the requested rectangle and on the logical screen
InRect130x(px, py, x, y, w, h) ==
    /\ px >= x /\ px < x + w /\ px < ssd1309_logic_width
    /\ py >= y /\ py < y + h /\ py < ssd1309_logic_height

\* C1: setPixel(x, y) inside the logical screen sets bit y mod 8 of byte
\* [y / 8][x] and leaves every other bit of every cache byte as it was.
C1_SetPixelOneBit ==
    (last.op = "setPixel" /\ last.x < ssd1309_logic_width
                          /\ last.y < ssd1309_logic_height) =>
        \A r \in Rows130x, c \in Cols130x :
            IF r = last.y \div 8 /\ c = last.x
            THEN \A k \in 0..7 :
                     Bit(OLED_GRAM[r][c], k) =
                         IF k = last.y % 8 THEN 1 ELSE Bit(pre[r][c], k)
            ELSE OLED_GRAM[r][c] = pre[r][c]

\* a setPixel has hit a byte that already held another pixel
C1_Witness ==
    /\ last.op = "setPixel"
    /\ last.x < ssd1309_logic_width /\ last.y < ssd1309_logic_height
    /\ pre[last.y \div 8][last.x] # 0
    /\ Bit(pre[last.y \div 8][last.x], last.y % 8) = 0
    /\ OLED_GRAM # pre

\* C2: clear_area(x, y, w, h) clears the bits of the pixels of the rectangle
\* that lie on the logical screen and leaves every other bit unchanged.
C2_ClearAreaExact ==
    (last.op = "clear_area") =>
        \A r \in Rows130x, c \in Cols130x :
            IF c >= last.x /\ c < last.x + last.w
            THEN \A k \in 0..7 :
                     Bit(OLED_GRAM[r][c], k) =
                         IF InRect130x(c, 8 * r + k, last.x, last.y, last.w, last.h)
                         THEN 0 ELSE Bit(pre[r][c], k)
            ELSE OLED_GRAM[r][c] = pre[r][c]

\* a 1x1 clear_area has cleared one pixel of a byte and kept its other pixels
C2_Witness ==
    /\ last.op = "clear_area" /\ last.w = 1 /\ last.h = 1 /\ last.ret
    /\ Pixel130x(pre, last.x, last.y) = 1
    /\ Pixel130x(OLED_GRAM, last.x, last.y) = 0
    /\ OLED_GRAM[last.y \div 8][last.x] # 0

\* the cache left by setArea of the same source at y = 0 on a cleared cache
AreaAtTop130x(x, w, src) ==
    oled_helper_draw_area_130x(
        Mach(ZeroGram(CACHED_WIDTH_130x, CACHED_HEIGHT_130x),
             CACHED_WIDTH_130x, CACHED_HEIGHT_130x), x, 0, w, 8, src).g

\* C4: on a cleared cache, setArea of an 8-row source that fits the screen
\* gives at any y the pattern it gives at y = 0 moved down by y rows: pixel
\* (x + i, y + k) is on iff bit k of source byte i is on, all others are off.
C4_CrossPageBlit ==
    (/\ last.op = "setArea" /\ last.h = 8
     /\ pre = ZeroGram(CACHED_WIDTH_130x, CACHED_HEIGHT_130x)
     /\ last.x + last.w <= ssd1309_logic_width
     /\ last.y + 8 <= ssd1309_logic_height) =>
        LET top == AreaAtTop130x(last.x, last.w, last.src)
        IN \A px \in 0..(ssd1309_logic_width - 1), py \in 0..(ssd1309_logic_height - 1) :
               /\ Pixel130x(OLED_GRAM, px, py) =
                      IF py >= last.y THEN Pixel130x(top, px, py - last.y) ELSE 0
               /\ Pixel130x(OLED_GRAM, px, py) =
                      IF px >= last.x /\ px < last.x + last.w
                         /\ py >= last.y /\ py < last.y + 8
                      THEN Bit(SrcByte(last.src, px - last.x), py - last.y)
                      ELSE 0

\* an 8-row source was drawn across a page boundary: both pages got pixels
C4_Witness ==
    /\ last.op = "setArea" /\ last.h = 8 /\ last.ret
    /\ pre = ZeroGram(CACHED_WIDTH_130x, CACHED_HEIGHT_130x)
    /\ last.x + last.w <= ssd1309_logic_width
    /\ last.y + 8 <= ssd1309_logic_height
    /\ last.y % 8 # 0
    /\ OLED_GRAM[last.y \div 8][last.x] # 0
    /\ OLED_GRAM[last.y \div 8 + 1][last.x] # 0

----------------------------------------------------------------------------
(* Properties of the 4-bit packed encoder                                  *)

Rows132x == 0..(CACHED_HEIGHT_132x - 1)
Cols132x == 0..(CACHED_WIDTH_132x - 1)

HighNibble(b) == b \div 16
LowNibble(b) == b % 16

\* C3: setPixel(x, y) inside the logical screen changes at most the high
\* nibble of byte [y][x / 2] when x is even and at most its low nibble when
\* x is odd; the other nibble and every other cache byte stay as they were.
C3_SetPixelOneNibble ==
    (last.op = "setPixel" /\ last.x < ssd1327_logic_width
                          /\ last.y < ssd1327_logic_height) =>
        \A r \in Rows132x, c \in Cols132x :
            IF r = last.y /\ c = last.x \div 2
            THEN IF last.x % 2 = 0
                 THEN LowNibble(OLED_GRAM[r][c]) = LowNibble(pre[r][c])
                 ELSE HighNibble(OLED_GRAM[r][c]) = HighNibble(pre[r][c])
            ELSE OLED_GRAM[r][c] = pre[r][c]

\* a setPixel at an even x has rewritten the high nibble of a byte whose low
\* nibble held a pixel
C3_Witness ==
    /\ last.op = "setPixel" /\ last.ret /\ last.x % 2 = 0
    /\ LowNibble(pre[last.y][last.x \div 2]) # 0
    /\ HighNibble(OLED_GRAM[last.y][last.x \div 2]) # HighNibble(pre[last.y][last.x \div 2])

\* the clamped width of the last area request on the 4bpp screen
ClampW132x == Max(0, Min(last.x + last.w, ssd1327_logic_width) - last.x)
ClampH132x == Max(0, Min(last.y + last.h, ssd1327_logic_height) - last.y)

\* pixel column px is a column of the last rectangle, cut to the screen
ColInRect132x(px) == px >= last.x /\ px < last.x + ClampW132x

\* C7 as stated: no byte transmitted by update_area holds a pixel column
\* outside the requested rectangle, also for an odd x or an odd width.
C7_NoColumnOutsideRect ==
    (last.op = "update_area") =>
        \A n \in 1..Len(tx) :
            tx[n].kind = "data" =>
                \A b \in 1..Len(tx[n].bytes) :
                    /\ ColInRect132x(2 * (tx[n].col + b - 1))
                    /\ ColInRect132x(2 * (tx[n].col + b - 1) + 1)

\* C7 amended: for a rectangle at least one pixel wide, update_area sends for
\* each of its rows the bytes x / 2 .. (x + w - 1) / 2: every transmitted byte
\* holds at least one pixel column of the rectangle, every pixel column of the
\* rectangle is transmitted, and a column outside the rectangle is sent only
\* as the other half of the byte of column x or of column x + w - 1.
C7_ByteRangeCoversRect ==
    (last.op = "update_area" /\ last.ret /\ ClampW132x >= 1) =>
        /\ \A n \in 1..Len(tx) :
               tx[n].kind = "data" =>
                   /\ tx[n].row >= last.y /\ tx[n].row < last.y + ClampH132x
                   /\ tx[n].col = last.x \div 2
                   /\ tx[n].col + Len(tx[n].bytes) - 1 = (last.x + ClampW132x - 1) \div 2
                   /\ \A b \in 1..Len(tx[n].bytes) :
                          \/ ColInRect132x(2 * (tx[n].col + b - 1))
                          \/ ColInRect132x(2 * (tx[n].col + b - 1) + 1)
        /\ \A row \in last.y..(last.y + ClampH132x - 1) :
               \E n \in 1..Len(tx) : tx[n].kind = "data" /\ tx[n].row = row

\* an update_area with odd x and odd width has sent bytes
C7_Witness ==
    /\ last.op = "update_area" /\ last.ret
    /\ last.x % 2 = 1 /\ ClampW132x % 2 = 1 /\ ClampW132x >= 3
    /\ \E n \in 1..Len(tx) : tx[n].kind = "data" /\ Len(tx[n].bytes) = 2

----------------------------------------------------------------------------
(* Properties of both encoders                                             *)

\* C5: every subscript used on OLED_GRAM is inside the array: the row index
\* is below CACHED_HEIGHT and the column index is below CACHED_WIDTH.
C5_AccessInBounds ==
    /\ acc.row \in {-1} \cup DOMAIN OLED_GRAM
    /\ acc.col \in {-1} \cup DOMAIN OLED_GRAM[0]

\* the clamped extent of the last area request on the 1bpp screen
ClampW130x == Max(0, Min(last.x + last.w, ssd1309_logic_width) - last.x)
ClampH130x == Max(0, Min(last.y + last.h, ssd1309_logic_height) - last.y)

\* cache byte [r][c] of the paged cache holds a pixel of the last rectangle
ByteInRect130x(r, c) ==
    \E k \in 0..7 : InRect130x(c, 8 * r + k, last.x, last.y, last.w, last.h)

\* C6 (1bpp): update_area transmits only cache bytes of the columns and pages
\* of the requested rectangle cut to the logical screen, reads no byte outside
\* the cache, and a rectangle that starts on the screen is not an error.
C6_UpdateAreaWithinRect ==
    (last.op = "update_area") =>
        /\ \A n \in 1..Len(tx) :
               tx[n].kind = "data" =>
                   \A b \in 1..Len(tx[n].bytes) :
                       /\ tx[n].row \in Rows130x
                       /\ (tx[n].col + b - 1) \in Cols130x
                       /\ ByteInRect130x(tx[n].row, tx[n].col + b - 1)
        /\ (last.x < ssd1309_logic_width /\ last.y < ssd1309_logic_height) => last.ret

----------------------------------------------------------------------------
(* Shape rasterizer: lib/graphic/base.  A shape operation talks to the     *)
(* device only through the operation table (setPixel, clear_area,          *)
(* update_area) and never uses a result of those calls, so each operation  *)
(* is written as the sequence of device calls it makes, in program order;  *)
(* the bound device then executes the sequence.                            *)

\* one call through device->ops: the operation and its arguments
Call(name, x, y, w, h) == <<name, x, y, w, h>>

CallOp(c) == c[1]
CallX(c) == c[2]
CallY(c) == c[3]
CallW(c) == c[4]
CallH(c) == c[5]

\* conversion to int16_t
I16(v) == IF U16(v) >= 32768 THEN U16(v) - 65536 ELSE U16(v)

asInt32_t(v) == v

clamp_u16_from_i32(v) ==
    IF v < 0 THEN 0
    ELSE IF v > UINT16_MAX THEN UINT16_MAX
    ELSE v

\* setPixel(handler, X, Y) with the arguments converted to uint16_t
setPixelCall(x, y) == Call("setPixel", U16(x), U16(y), 0, 0)

\* __x = center.x + (offsetx); __y = center.y + (offsety); setPixel(handler, __x, __y)
DRAW_OFFSET_POINT(center, offsetx, offsety) ==
    setPixelCall(center.x + offsetx, center.y + offsety)

\* for (int16_t i = -n; i < n; i++) DRAW_OFFSET_POINT(a, i);
OffsetColumn(center, a, n) ==
    IF n <= 0 THEN <<>>
    ELSE [k \in 1..(2 * n) |-> DRAW_OFFSET_POINT(center, a, k - 1 - n)]

\* for (int16_t i = -n; i < n; i++) { DRAW_OFFSET_POINT(a, i); DRAW_OFFSET_POINT(b, i); }
OffsetColumnPair(center, a, b, n) ==
    IF n <= 0 THEN <<>>
    ELSE [k \in 1..(4 * n) |->
              IF k % 2 = 1
              THEN DRAW_OFFSET_POINT(center, a, ((k - 1) \div 2) - n)
              ELSE DRAW_OFFSET_POINT(center, b, ((k - 1) \div 2) - n)]

----------------------------------------------------------------------------
(* circle.c *)

circle_calc_bbox(c) ==
    [lx |-> asInt32_t(c.center.x) - c.radius,
     ty |-> asInt32_t(c.center.y) - c.radius,
     rx |-> asInt32_t(c.center.x) + c.radius,
     by |-> asInt32_t(c.center.y) + c.radius]

clearBound_circle(c) ==
    LET b == circle_calc_bbox(c)
    IN Call("clear_area", clamp_u16_from_i32(b.lx), clamp_u16_from_i32(b.ty),
            clamp_u16_from_i32(b.rx - b.lx + 1), clamp_u16_from_i32(b.by - b.ty + 1))

\* the update_area request at the end of both circle operations
update_circle(c) ==
    LET b == circle_calc_bbox(c)
    IN Call("update_area", clamp_u16_from_i32(b.lx), clamp_u16_from_i32(b.ty),
            clamp_u16_from_i32(b.rx - b.lx + 1), clamp_u16_from_i32(b.by - b.ty + 1))

\* mutation: the step never moves towards the centre
circle_step_flat(x, y, d) == [x |-> I16(x + 1), y |-> y, d |-> d]

\* x++; if (d < 0) d += 2 * x + 1; else { y--; d += 2 * (x - y) + 1; }
\* (the same step is used by both circle and both arc operations)
circle_step(x, y, d) ==
    IF d < 0
    THEN [x |-> I16(x + 1), y |-> y, d |-> I16(d + 2 * I16(x + 1) + 1)]
    ELSE [x |-> I16(x + 1), y |-> I16(y - 1),
          d |-> I16(d + 2 * (I16(x + 1) - I16(y - 1)) + 1)]

\* the four points drawn before the loop
circle_first_points(center, x, y) ==
    <<DRAW_OFFSET_POINT(center, x, y), DRAW_OFFSET_POINT(center, -x, -y),
      DRAW_OFFSET_POINT(center, y, x), DRAW_OFFSET_POINT(center, -y, -x)>>

\* the eight symmetric points drawn in each loop iteration
circle_octant_points(center, x, y) ==
    <<DRAW_OFFSET_POINT(center, x, y), DRAW_OFFSET_POINT(center, y, x),
      DRAW_OFFSET_POINT(center, -x, -y), DRAW_OFFSET_POINT(center, -y, -x),
      DRAW_OFFSET_POINT(center, x, -y), DRAW_OFFSET_POINT(center, y, -x),
      DRAW_OFFSET_POINT(center, -x, y), DRAW_OFFSET_POINT(center, -y, x)>>

RECURSIVE DrawCircle_loop(_, _, _, _)
DrawCircle_loop(c, x, y, d) ==
    IF x < y
    THEN LET n == circle_step(x, y, d)
         IN circle_octant_points(c.center, n.x, n.y)
                \o DrawCircle_loop(c, n.x, n.y, n.d)
    ELSE <<>>

CFBDGraphic_DrawCircle(c, immediate) ==
    <<clearBound_circle(c)>>
        \o circle_first_points(c.center, 0, I16(c.radius))
        \o DrawCircle_loop(c, 0, I16(c.radius), I16(3 - (c.radius \div 4)))
        \o (IF immediate THEN <<update_circle(c)>> ELSE <<>>)

RECURSIVE DrawFilledCircle_loop(_, _, _, _)
DrawFilledCircle_loop(c, x, y, d) ==
    IF x < y
    THEN LET n == circle_step(x, y, d)
         IN circle_octant_points(c.center, n.x, n.y)
                \o OffsetColumnPair(c.center, n.x, -n.x, n.y)
                \o OffsetColumnPair(c.center, n.y, -n.y, n.x)
                \o DrawFilledCircle_loop(c, n.x, n.y, n.d)
    ELSE <<>>

CFBDGraphic_DrawFilledCircle(c, immediate) ==
    <<clearBound_circle(c)>>
        \o circle_first_points(c.center, 0, I16(c.radius))
        \o OffsetColumn(c.center, 0, I16(c.radius))
        \o DrawFilledCircle_loop(c, 0, I16(c.radius), I16(1 - c.radius))
        \o (IF immediate THEN <<update_circle(c)>> ELSE <<>>)

----------------------------------------------------------------------------
(* ellipse.c.  The decision variables d1 and d2 are floats whose values    *)
(* are multiples of 1/4; they are kept here multiplied by 4, which is      *)
(* exact for the radii used (all values stay below 2^24).                  *)

ellipse_bbox(e) ==
    [lx |-> asInt32_t(e.center.x) - I16(e.X_Radius),
     ty |-> asInt32_t(e.center.y) - I16(e.Y_Radius),
     rx |-> asInt32_t(e.center.x) + I16(e.X_Radius),
     by |-> asInt32_t(e.center.y) + I16(e.Y_Radius)]

\* clearBound of ellipse.c issues update_area
clearBound_ellipse(e) ==
    LET b == ellipse_bbox(e)
    IN Call("update_area", clamp_u16_from_i32(b.lx), clamp_u16_from_i32(b.ty),
            clamp_u16_from_i32(b.rx - b.lx + 1), clamp_u16_from_i32(b.by - b.ty + 1))

update_ellipse(e) ==
    LET b == ellipse_bbox(e)
    IN Call("update_area", clamp_u16_from_i32(b.lx), clamp_u16_from_i32(b.ty),
            clamp_u16_from_i32(b.rx - b.lx + 1), clamp_u16_from_i32(b.by - b.ty + 1))

ellipse_points(center, x, y) ==
    <<DRAW_OFFSET_POINT(center, x, y), DRAW_OFFSET_POINT(center, -x, -y),
      DRAW_OFFSET_POINT(center, -x, y), DRAW_OFFSET_POINT(center, x, -y)>>

x_radius_square(e) == I16(I16(e.X_Radius) * I16(e.X_Radius))
y_radius_square(e) == I16(I16(e.Y_Radius) * I16(e.Y_Radius))

\* 4 * (y_radius_square + x_radius_square * (-y_radius + 0.5))
ellipse_d1(e) ==
    4 * y_radius_square(e) + x_radius_square(e) * (2 - 4 * I16(e.Y_Radius))

\* 4 * (SQUARE(y_radius * (x + 0.5)) + SQUARE(x_radius * (y - 1))
\*      - x_radius_square * y_radius_square)
ellipse_d2(e, x, y) ==
    (I16(e.Y_Radius) * (2 * x + 1)) * (I16(e.Y_Radius) * (2 * x + 1))
        + 4 * (I16(e.X_Radius) * (y - 1)) * (I16(e.X_Radius) * (y - 1))
        - 4 * x_radius_square(e) * y_radius_square(e)

\* first region: while (y_radius_square * (x + 1) < x_radius_square * (y - 0.5));
\* the result carries the calls made and the x, y the loop ends with
RECURSIVE ellipse_region1(_, _, _, _, _, _)
ellipse_region1(e, filled, x, y, d1, cs) ==
    IF 2 * y_radius_square(e) * (x + 1) < x_radius_square(e) * (2 * y - 1)
    THEN LET y1 == IF d1 <= 0 THEN y ELSE I16(y - 1)
             x1 == I16(x + 1)
             d == IF d1 <= 0
                  THEN d1 + 4 * y_radius_square(e) * (2 * x + 3)
                  ELSE d1 + 4 * (y_radius_square(e) * (2 * x + 3)
                                 + x_radius_square(e) * (2 - 2 * y))
         IN ellipse_region1(e, filled, x1, y1, d,
                cs \o (IF filled THEN OffsetColumnPair(e.center, x1, -x1, y1) ELSE <<>>)
                   \o ellipse_points(e.center, x1, y1))
    ELSE [cs |-> cs, x |-> x, y |-> y]

\* second region: while (y > 0)
RECURSIVE ellipse_region2(_, _, _, _, _)
ellipse_region2(e, filled, x, y, d2) ==
    IF y > 0
    THEN LET x1 == IF d2 <= 0 THEN I16(x + 1) ELSE x
             y1 == I16(y - 1)
             d == IF d2 <= 0
                  THEN d2 + 4 * (y_radius_square(e) * (2 * x + 2)
                                 + x_radius_square(e) * (3 - 2 * y))
                  ELSE d2 + 4 * x_radius_square(e) * (3 - 2 * y)
         IN (IF filled THEN OffsetColumnPair(e.center, x1, -x1, y1) ELSE <<>>)
                \o ellipse_points(e.center, x1, y1)
                \o ellipse_region2(e, filled, x1, y1, d)
    ELSE <<>>

CFBDGraphic_DrawEllipse(e, immediate) ==
    LET r1 == ellipse_region1(e, FALSE, 0, I16(e.Y_Radius), ellipse_d1(e), <<>>)
    IN <<clearBound_ellipse(e)>>
           \o ellipse_points(e.center, 0, I16(e.Y_Radius))
           \o r1.cs
           \o ellipse_region2(e, FALSE, r1.x, r1.y, ellipse_d2(e, r1.x, r1.y))
           \o (IF immediate THEN <<update_ellipse(e)>> ELSE <<>>)

CFBDGraphic_DrawFilledEllipse(e, immediate) ==
    LET r1 == ellipse_region1(e, TRUE, 0, I16(e.Y_Radius), ellipse_d1(e), <<>>)
    IN <<clearBound_ellipse(e)>>
           \o OffsetColumnPair(e.center, 0, 0, I16(e.Y_Radius))
           \o ellipse_points(e.center, 0, I16(e.Y_Radius))
           \o r1.cs
           \o ellipse_region2(e, TRUE, r1.x, r1.y, ellipse_d2(e, r1.x, r1.y))
           \o (IF immediate THEN <<update_ellipse(e)>> ELSE <<>>)

----------------------------------------------------------------------------
(* arc.c *)

\* (int16_t)(atan2(y, x) / 3.14 * 180) for -4 <= x, y <= 4: row y + 5,
\* column x + 5, the double result truncated toward zero
point_angle_table ==
    <<<<-135, -126, -116, -104,  -90,  -76,  -63,  -53,  -45>>,
      <<-143, -135, -123, -108,  -90,  -71,  -56,  -45,  -36>>,
      <<-153, -146, -135, -116,  -90,  -63,  -45,  -33,  -26>>,
      <<-166, -161, -153, -135,  -90,  -45,  -26,  -18,  -14>>,
      << 180,  180,  180,  180,    0,    0,    0,    0,    0>>,
      << 166,  161,  153,  135,   90,   45,   26,   18,   14>>,
      << 153,  146,  135,  116,   90,   63,   45,   33,   26>>,
      << 143,  135,  123,  108,   90,   71,   56,   45,   36>>,
      << 135,  126,  116,  104,   90,   76,   63,   53,   45>>>>

point_angle(x, y) ==
    LET r == (Len(point_angle_table) - 1) \div 2
    IN point_angle_table[y + r + 1][x + r + 1]

pvt_is_in_angle(x, y, start, end) ==
    IF start < end
    THEN start < point_angle(x, y) /\ point_angle(x, y) < end
    ELSE start > point_angle(x, y) \/ point_angle(x, y) > end

arc_bbox(arc) ==
    [lx |-> asInt32_t(arc.center.x) - arc.radius,
     ty |-> asInt32_t(arc.center.y) - arc.radius,
     rx |-> asInt32_t(arc.center.x) + arc.radius,
     by |-> asInt32_t(arc.center.y) + arc.radius]

clearArea_arc(arc) ==
    LET b == arc_bbox(arc)
    IN Call("clear_area", clamp_u16_from_i32(b.lx), clamp_u16_from_i32(b.ty),
            U16(b.rx - b.lx + 1), U16(b.by - b.ty + 1))

updateArea_arc(arc) ==
    LET b == arc_bbox(arc)
    IN Call("update_area", clamp_u16_from_i32(b.lx), clamp_u16_from_i32(b.ty),
            U16(b.rx - b.lx + 1), U16(b.by - b.ty + 1))

\* if (__pvt_is_in_angle(offsetx, offsety, start_angle, end_angle)) DRAW_OFFSET_POINT(...)
DRAW_IF_IN(arc, offsetx, offsety) ==
    IF pvt_is_in_angle(I16(offsetx), I16(offsety),
                       I16(arc.start_degree), I16(arc.end_degree))
    THEN <<DRAW_OFFSET_POINT(arc.center, offsetx, offsety)>>
    ELSE <<>>

arc_first_points(arc, x, y) ==
    DRAW_IF_IN(arc, x, y) \o DRAW_IF_IN(arc, -x, -y)
        \o DRAW_IF_IN(arc, y, x) \o DRAW_IF_IN(arc, -y, -x)

arc_octant_points(arc, x, y) ==
    DRAW_IF_IN(arc, x, y) \o DRAW_IF_IN(arc, y, x)
        \o DRAW_IF_IN(arc, -x, -y) \o DRAW_IF_IN(arc, -y, -x)
        \o DRAW_IF_IN(arc, x, -y) \o DRAW_IF_IN(arc, y, -x)
        \o DRAW_IF_IN(arc, -x, y) \o DRAW_IF_IN(arc, -y, x)

\* for (int16_t j = lo; j < hi; j++) { DRAW_IF_IN(a, j); DRAW_IF_IN(-a, j); }
RECURSIVE arc_column_pair(_, _, _, _)
arc_column_pair(arc, a, j, hi) ==
    IF j < hi
    THEN DRAW_IF_IN(arc, a, j) \o DRAW_IF_IN(arc, -a, j)
             \o arc_column_pair(arc, a, I16(j + 1), hi)
    ELSE <<>>

\* for (int16_t j = -y; j < y; j++) DRAW_IF_IN(0, j);
RECURSIVE arc_column(_, _, _)
arc_column(arc, j, hi) ==
    IF j < hi
    THEN DRAW_IF_IN(arc, 0, j) \o arc_column(arc, I16(j + 1), hi)
    ELSE <<>>

RECURSIVE DrawArc_loop(_, _, _, _)
DrawArc_loop(arc, x, y, d) ==
    IF x < y
    THEN LET n == circle_step(x, y, d)
         IN arc_octant_points(arc, n.x, n.y) \o DrawArc_loop(arc, n.x, n.y, n.d)
    ELSE <<>>

CFBDGraphic_DrawArc(arc, immediate) ==
    <<clearArea_arc(arc)>>
        \o arc_first_points(arc, 0, I16(arc.radius))
        \o DrawArc_loop(arc, 0, I16(arc.radius), I16(1 - I16(arc.radius)))
        \o (IF immediate THEN <<updateArea_arc(arc)>> ELSE <<>>)

RECURSIVE DrawFilledArc_loop(_, _, _, _)
DrawFilledArc_loop(arc, x, y, d) ==
    IF x < y
    THEN LET n == circle_step(x, y, d)
         IN arc_octant_points(arc, n.x, n.y)
                \o arc_column_pair(arc, n.x, I16(-n.y), n.y)
                \o arc_column_pair(arc, n.y, I16(-n.x), n.x)
                \o DrawFilledArc_loop(arc, n.x, n.y, n.d)
    ELSE <<>>

CFBDGraphic_DrawFilledArc(arc, immediate) ==
    <<clearArea_arc(arc)>>
        \o arc_first_points(arc, 0, I16(arc.radius))
        \o arc_column(arc, I16(-I16(arc.radius)), I16(arc.radius))
        \o DrawFilledArc_loop(arc, 0, I16(arc.radius), I16(1 - I16(arc.radius)))
        \o (IF immediate THEN <<updateArea_arc(arc)>> ELSE <<>>)

----------------------------------------------------------------------------
(* line.c *)

\* the marker closing the call sequence of a loop that never ends, with the
\* coordinates of the last pixel before the counter wraps
Diverges(x, y) == Call("diverges", x, y, 0, 0)

Diverged(cs) == Len(cs) > 0 /\ CallOp(cs[Len(cs)]) = "diverges"

\* a; b  -- b is not reached when a does not return
Then(a, b) == IF Diverged(a) THEN a ELSE a \o b

\* clearBounds of line.c computes the bounds and calls nothing
clearBounds_line(line) == <<>>

\* for (PointBaseType i = lo; i <= hi; i++): with hi = 65535 the condition
\* holds for every uint16_t i, the counter wraps and the loop never ends
on_handle_vertical_line(line) ==
    LET max_y == Max(line.p_left.y, line.p_right.y)
        min_y == Min(line.p_left.y, line.p_right.y)
        run == [k \in 1..(max_y - min_y + 1) |-> setPixelCall(line.p_left.x, min_y + k - 1)]
    IN IF max_y = UINT16_MAX THEN Append(run, Diverges(line.p_left.x, max_y)) ELSE run

on_handle_horizental_line(line) ==
    LET max_x == Max(line.p_left.x, line.p_right.x)
        min_x == Min(line.p_left.x, line.p_right.x)
        run == [k \in 1..(max_x - min_x + 1) |-> setPixelCall(min_x + k - 1, line.p_left.y)]
    IN IF max_x = UINT16_MAX THEN Append(run, Diverges(max_x, line.p_left.y)) ELSE run

\* __pvt_fast_draw_point with the coordinate transformations undone
bresenham_point(x, y, isYInverted, isXYInverted) ==
    IF isYInverted /\ isXYInverted THEN setPixelCall(y, -x)
    ELSE IF isYInverted THEN setPixelCall(x, -y)
    ELSE IF isXYInverted THEN setPixelCall(y, x)
    ELSE setPixelCall(x, y)

RECURSIVE bresenham_loop(_, _, _, _, _, _, _, _)
bresenham_loop(x, y, endX, decision, incrE, incrNE, isYInverted, isXYInverted) ==
    IF x < endX
    THEN LET x1 == I16(x + 1)
             y1 == IF decision < 0 THEN y ELSE I16(y + 1)
             d1 == IF decision < 0 THEN I16(decision + incrE) ELSE I16(decision + incrNE)
         IN <<bresenham_point(x1, y1, isYInverted, isXYInverted)>>
                \o bresenham_loop(x1, y1, endX, d1, incrE, incrNE, isYInverted, isXYInverted)
    ELSE <<>>

pvt_BresenhamMethod_line(line) ==
    LET sx0 == I16(line.p_left.x)
        sy0 == I16(line.p_left.y)
        ex0 == I16(line.p_right.x)
        ey0 == I16(line.p_right.y)
        \* if (startX > endX) swap the end points
        sx1 == IF sx0 > ex0 THEN ex0 ELSE sx0
        ex1 == IF sx0 > ex0 THEN sx0 ELSE ex0
        sy1 == IF sx0 > ex0 THEN ey0 ELSE sy0
        ey1 == IF sx0 > ex0 THEN sy0 ELSE ey0
        \* if (startY > endY) negate the y coordinates
        isYInverted == sy1 > ey1
        sy2 == IF isYInverted THEN I16(-sy1) ELSE sy1
        ey2 == IF isYInverted THEN I16(-ey1) ELSE ey1
        \* if (endY - startY > endX - startX) swap x and y
        isXYInverted == ey2 - sy2 > ex1 - sx1
        startX == IF isXYInverted THEN sy2 ELSE sx1
        startY == IF isXYInverted THEN sx1 ELSE sy2
        endX == IF isXYInverted THEN ey2 ELSE ex1
        endY == IF isXYInverted THEN ex1 ELSE ey2
        dx == I16(endX - startX)
        dy == I16(endY - startY)
        incrE == I16(2 * dy)
        incrNE == I16(2 * (dy - dx))
        decision == I16(2 * dy - dx)
    IN <<bresenham_point(startX, startY, isYInverted, isXYInverted)>>
           \o bresenham_loop(startX, startY, endX, decision, incrE, incrNE,
                             isYInverted, isXYInverted)

update_line(line) ==
    LET lx == Min(asInt32_t(line.p_left.x), asInt32_t(line.p_right.x))
        rx == Max(asInt32_t(line.p_left.x), asInt32_t(line.p_right.x))
        ty == Min(asInt32_t(line.p_left.y), asInt32_t(line.p_right.y))
        by == Max(asInt32_t(line.p_left.y), asInt32_t(line.p_right.y))
    IN Call("update_area", clamp_u16_from_i32(lx), clamp_u16_from_i32(ty),
            clamp_u16_from_i32(rx - lx + 1), clamp_u16_from_i32(by - ty + 1))

CFBDGraphic_DrawLine(line, immediate) ==
    Then(Then(Then(Then(clearBounds_line(line),
                        IF line.p_left.x = line.p_right.x
                        THEN on_handle_vertical_line(line) ELSE <<>>),
                   IF line.p_left.y = line.p_right.y
                   THEN on_handle_horizental_line(line) ELSE <<>>),
              pvt_BresenhamMethod_line(line)),
         IF immediate THEN <<update_line(line)>> ELSE <<>>)

----------------------------------------------------------------------------
(* rectangle.h / rectangle.c *)

\* mutation: the corners are returned in the order given
rect_normalize_asis(r) ==
    [tl |-> [x |-> r.tl.x, y |-> r.tl.y], br |-> [x |-> r.br.x, y |-> r.br.y]]

rect_normalize(r) ==
    [tl |-> [x |-> Min(r.tl.x, r.br.x), y |-> Min(r.tl.y, r.br.y)],
     br |-> [x |-> Max(r.tl.x, r.br.x), y |-> Max(r.tl.y, r.br.y)]]

\* lx, ty, rx, by of the normalized rectangle and the uint16_t extent w, h
rect_extent(rect) ==
    LET n == rect_normalize(rect)
        lx == asInt32_t(n.tl.x)
        ty == asInt32_t(n.tl.y)
        rx == Max(asInt32_t(n.br.x), lx)
        by == Max(asInt32_t(n.br.y), ty)
    IN [lx |-> lx, ty |-> ty, rx |-> rx, by |-> by,
        w |-> U16(rx - lx + 1), h |-> U16(by - ty + 1)]

clear_rect(rect) ==
    LET e == rect_extent(rect)
    IN Call("clear_area", clamp_u16_from_i32(e.lx), clamp_u16_from_i32(e.ty), e.w, e.h)

update_rect(rect) ==
    LET e == rect_extent(rect)
    IN Call("update_area", clamp_u16_from_i32(e.lx), clamp_u16_from_i32(e.ty), e.w, e.h)

\* for (x = lx; x <= rx; ++x) { setPixel(x, ty); if (by != ty) setPixel(x, by); }
DrawRect_horizontal(e) ==
    IF e.by # e.ty
    THEN [k \in 1..(2 * (e.rx - e.lx + 1)) |->
              IF k % 2 = 1
              THEN setPixelCall(clamp_u16_from_i32(e.lx + ((k - 1) \div 2)),
                                clamp_u16_from_i32(e.ty))
              ELSE setPixelCall(clamp_u16_from_i32(e.lx + ((k - 1) \div 2)),
                                clamp_u16_from_i32(e.by))]
    ELSE [k \in 1..(e.rx - e.lx + 1) |->
              setPixelCall(clamp_u16_from_i32(e.lx + k - 1), clamp_u16_from_i32(e.ty))]

\* mutation: only the left edge is drawn
DrawRect_vertical_left(e) ==
    IF e.by - e.ty >= 2
    THEN [k \in 1..(e.by - e.ty - 1) |->
              setPixelCall(clamp_u16_from_i32(e.lx), clamp_u16_from_i32(e.ty + k))]
    ELSE <<>>

\* if (by - ty >= 2) for (y = ty + 1; y <= by - 1; ++y)
\*     { setPixel(lx, y); if (rx != lx) setPixel(rx, y); }
DrawRect_vertical(e) ==
    IF e.by - e.ty >= 2
    THEN IF e.rx # e.lx
         THEN [k \in 1..(2 * (e.by - e.ty - 1)) |->
                   IF k % 2 = 1
                   THEN setPixelCall(clamp_u16_from_i32(e.lx),
                                     clamp_u16_from_i32(e.ty + 1 + ((k - 1) \div 2)))
                   ELSE setPixelCall(clamp_u16_from_i32(e.rx),
                                     clamp_u16_from_i32(e.ty + 1 + ((k - 1) \div 2)))]
         ELSE [k \in 1..(e.by - e.ty - 1) |->
                   setPixelCall(clamp_u16_from_i32(e.lx), clamp_u16_from_i32(e.ty + k))]
    ELSE <<>>

CFBDGraphic_DrawRect(rect, immediate) ==
    LET e == rect_extent(rect)
    IN <<clear_rect(rect)>>
           \o (IF e.lx = e.rx /\ e.ty = e.by
               THEN <<setPixelCall(clamp_u16_from_i32(e.lx), clamp_u16_from_i32(e.ty))>>
               ELSE DrawRect_horizontal(e) \o DrawRect_vertical(e))
           \o (IF immediate THEN <<update_rect(rect)>> ELSE <<>>)

\* for (y = ty; y <= by; ++y) for (x = lx; x <= rx; ++x) setPixel(x, y);
FillRect_pixels(e) ==
    [k \in 1..((e.rx - e.lx + 1) * (e.by - e.ty + 1)) |->
         setPixelCall(clamp_u16_from_i32(e.lx + ((k - 1) % (e.rx - e.lx + 1))),
                      clamp_u16_from_i32(e.ty + ((k - 1) \div (e.rx - e.lx + 1))))]

CFBDGraphic_FillRect(rect, immediate) ==
    <<clear_rect(rect)>>
        \o FillRect_pixels(rect_extent(rect))
        \o (IF immediate THEN <<update_rect(rect)>> ELSE <<>>)

----------------------------------------------------------------------------
(* triangle.c *)

triangle_extent(t) ==
    LET lx == Min(Min(asInt32_t(t.p1.x), asInt32_t(t.p2.x)), asInt32_t(t.p3.x))
        ty == Min(Min(asInt32_t(t.p1.y), asInt32_t(t.p2.y)), asInt32_t(t.p3.y))
        rx == Max(Max(asInt32_t(t.p1.x), asInt32_t(t.p2.x)), asInt32_t(t.p3.x))
        by == Max(Max(asInt32_t(t.p1.y), asInt32_t(t.p2.y)), asInt32_t(t.p3.y))
    IN [lx |-> lx, ty |-> ty, w |-> U16(rx - lx + 1), h |-> U16(by - ty + 1)]

clearBound_triangle(t) ==
    LET e == triangle_extent(t)
    IN Call("clear_area", clamp_u16_from_i32(e.lx), clamp_u16_from_i32(e.ty), e.w, e.h)

update_requests(t) ==
    LET e == triangle_extent(t)
    IN Call("update_area", clamp_u16_from_i32(e.lx), clamp_u16_from_i32(e.ty), e.w, e.h)

CCGraphic_DrawTriangle(t, immediate) ==
    Then(Then(Then(Then(<<clearBound_triangle(t)>>,
                        CFBDGraphic_DrawLine([p_left |-> t.p1, p_right |-> t.p2], immediate)),
                   CFBDGraphic_DrawLine([p_left |-> t.p2, p_right |-> t.p3], immediate)),
              CFBDGraphic_DrawLine([p_left |-> t.p1, p_right |-> t.p3], immediate)),
         IF immediate THEN <<update_requests(t)>> ELSE <<>>)

\* one edge test of the crossing-number loop; i, j are 1-based here
triangle_edge_crosses(tx_, ty_, i, j, x, y) ==
    /\ (ty_[i] > y) # (ty_[j] > y)
    /\ x < CDiv((tx_[j] - tx_[i]) * (y - ty_[i]), ty_[j] - ty_[i]) + tx_[i]

\* for (i = 0, j = 2; i < 3; j = i++): the edges (0,2), (1,0), (2,1)
pvt_is_in_triangle(tx_, ty_, x, y) ==
    (triangle_edge_crosses(tx_, ty_, 1, 3, x, y)
        # triangle_edge_crosses(tx_, ty_, 2, 1, x, y))
        # triangle_edge_crosses(tx_, ty_, 3, 2, x, y)

DrawFilledTriangle_pixels(t) ==
    LET triangles_x == <<I16(t.p1.x), I16(t.p2.x), I16(t.p3.x)>>
        triangles_y == <<I16(t.p1.y), I16(t.p2.y), I16(t.p3.y)>>
        minX == Min(Min(triangles_x[1], triangles_x[2]), triangles_x[3])
        minY == Min(Min(triangles_y[1], triangles_y[2]), triangles_y[3])
        maxX == Max(Max(triangles_x[1], triangles_x[2]), triangles_x[3])
        maxY == Max(Max(triangles_y[1], triangles_y[2]), triangles_y[3])
        \* the candidates in loop order: i outer, j inner
        cand == IF maxX > minX /\ maxY > minY
                THEN [k \in 1..((maxX - minX) * (maxY - minY)) |->
                          <<minX + ((k - 1) \div (maxY - minY)),
                            minY + ((k - 1) % (maxY - minY))>>]
                ELSE <<>>
        inside == SelectSeq(cand, LAMBDA p :
                      pvt_is_in_triangle(triangles_x, triangles_y, U16(p[1]), U16(p[2])))
    IN [k \in 1..Len(inside) |-> setPixelCall(inside[k][1], inside[k][2])]

CCGraphic_DrawFilledTriangle(t, immediate) ==
    <<clearBound_triangle(t)>>
        \o DrawFilledTriangle_pixels(t)
        \o (IF immediate THEN <<update_requests(t)>> ELSE <<>>)

----------------------------------------------------------------------------
(* The bound device: oled_graphic_device.c forwards every call of the      *)
(* graphics-device table to the same operation of the OLED encoder.        *)

graphic_oled_setPixel(m, x, y) == setPixel_130x(m, x, y)
graphic_oled_update(m) == update_130x(m)
graphic_oled_clear(m) == clear_130x(m)
graphic_oled_update_area(m, x, y, w, h) == oled_helper_update_area_130x(m, x, y, w, h)
graphic_oled_clear_area(m, x, y, w, h) == oled_helper_clear_area_130x(m, x, y, w, h)

\* one call through device->ops, entered with the previous call returned
DeviceCall(m, c) ==
    LET m0 == [m EXCEPT !.halt = FALSE]
    IN CASE CallOp(c) = "setPixel" ->
                graphic_oled_setPixel(m0, CallX(c), CallY(c))
         [] CallOp(c) = "clear_area" ->
                graphic_oled_clear_area(m0, CallX(c), CallY(c), CallW(c), CallH(c))
         [] CallOp(c) = "update_area" ->
                graphic_oled_update_area(m0, CallX(c), CallY(c), CallW(c), CallH(c))
         [] CallOp(c) = "update" -> graphic_oled_update(m0)
         [] CallOp(c) = "clear" -> graphic_oled_clear(m0)
         [] OTHER -> m0

\* the calls cs[lo..hi] executed in order: a call is made when the call
\* before it has returned
RECURSIVE DeviceRun(_, _, _, _)
DeviceRun(m, cs, lo, hi) ==
    IF lo > hi THEN m
    ELSE IF lo = hi THEN DeviceCall(m, cs[lo])
    ELSE LET first == DeviceRun(m, cs, lo, (lo + hi) \div 2)
         IN IF first.halt
            THEN DeviceRun(first, cs, ((lo + hi) \div 2) + 1, hi)
            ELSE first

----------------------------------------------------------------------------
(* State machine of the rasterizer over a graphics device bound to the     *)
(* 1bpp encoder: one action per shape operation, plus the caller's mode    *)
(* switch and explicit frame update.                                       *)

Pt(x, y) == [x |-> x, y |-> y]

GfxOp(name, shape, immediate) == [op |-> name, shape |-> shape, imm |-> immediate]

\* the effect of the device calls cs made by the operation name
RunCalls(name, shape, cs) ==
    /\ pre' = OLED_GRAM
    /\ calls' = cs
    /\ last' = GfxOp(name, shape, immediate_draw)
    /\ LET m == DeviceRun(M130x, cs, 1, Len(cs))
       IN /\ OLED_GRAM' = m.g
          /\ acc' = [row |-> m.ar, col |-> m.ac]
          /\ tx' = m.tx
    /\ UNCHANGED <<grey_scale, immediate_draw, wiring>>

\* one finished shape operation that made the calls cs
FinishShape(name, shape, cs) ==
    /\ nops < MaxShapes
    /\ nops' = nops + 1
    /\ RunCalls(name, shape, cs)

\* <<center.x, center.y, radius>>
CircleArgs == {<<64, 32, 10>>, <<4, 3, 5>>, <<126, 62, 3>>}

\* a larger circle, offered to the outline operation only
WideCircleArgs == {<<40, 30, 16>>}

Circle(a) == [center |-> Pt(a[1], a[2]), radius |-> a[3]]

\* <<center.x, center.y, X_Radius, Y_Radius>>
EllipseArgs == {<<20, 20, 4, 2>>, <<2, 2, 4, 3>>, <<30, 20, 3, 5>>}

Ellipse(a) == [center |-> Pt(a[1], a[2]), X_Radius |-> a[3], Y_Radius |-> a[4]]

\* <<center.x, center.y, radius, start_degree, end_degree>>
ArcArgs ==
    {<<20, 20, 3, 0, 90>>, <<20, 20, 4, 270, 45>>, <<1, 1, 3, -90, 90>>,
     <<20, 20, 4, 45, 135>>}

Arc(a) ==
    [center |-> Pt(a[1], a[2]), radius |-> a[3],
     start_degree |-> a[4], end_degree |-> a[5]]

\* <<p_left.x, p_left.y, p_right.x, p_right.y>>
LineArgs ==
    {<<0, 0, 7, 3>>, <<5, 9, 5, 2>>, <<9, 4, 2, 4>>, <<3, 10, 10, 3>>,
     <<6, 6, 6, 6>>, <<2, 1, 4, 9>>, <<65533, 5, 65535, 5>>}

Line(a) == [p_left |-> Pt(a[1], a[2]), p_right |-> Pt(a[3], a[4])]

\* <<tl.x, tl.y, br.x, br.y>>
RectArgs ==
    {<<2, 2, 6, 5>>, <<6, 5, 2, 2>>, <<3, 3, 3, 3>>, <<126, 62, 130, 66>>,
     <<4, 4, 9, 4>>}

Rect(a) == [tl |-> Pt(a[1], a[2]), br |-> Pt(a[3], a[4])]

\* <<p1.x, p1.y, p2.x, p2.y, p3.x, p3.y>>
TriangleArgs == {<<5, 5, 12, 5, 8, 11>>, <<0, 0, 3, 7, 6, 2>>}

Triangle(a) == [p1 |-> Pt(a[1], a[2]), p2 |-> Pt(a[3], a[4]), p3 |-> Pt(a[5], a[6])]

InitGfx ==
    /\ OLED_GRAM = ZeroGram(CACHED_WIDTH_130x, CACHED_HEIGHT_130x)
    /\ grey_scale = 0
    /\ immediate_draw \in BOOLEAN
    /\ pre = OLED_GRAM
    /\ last = GfxOp("none", <<>>, immediate_draw)
    /\ acc = [row |-> -1, col |-> -1]
    /\ tx = <<>>
    /\ calls = <<>>
    /\ nops = 0
    /\ oled = CFBD_OLED_IIC130XInit(UnboundOLED, "ssd1309")
    /\ device = CFBDGraphic_BindOLEDAsDevice(UnboundDevice, "oled", oled)
    /\ bus = I2C_OK
    /\ direct = <<>>

\* CFBDGraphic_DeviceSetIfRequestUpdateAtOnce(device, requests)
SetImmediate ==
    /\ \E requests \in BOOLEAN : immediate_draw' = requests
    /\ UNCHANGED <<OLED_GRAM, grey_scale, pre, last, acc, tx, calls, nops, wiring>>

\* the caller's explicit device->ops->update(device)
DeviceUpdate ==
    /\ RunCalls("update", <<>>, <<Call("update", 0, 0, 0, 0)>>)
    /\ UNCHANGED nops

DrawLine ==
    \E a \in LineArgs : FinishShape("DrawLine", Line(a),
                    CFBDGraphic_DrawLine(Line(a), immediate_draw))

DrawRect ==
    \E a \in RectArgs : FinishShape("DrawRect", Rect(a),
                    CFBDGraphic_DrawRect(Rect(a), immediate_draw))

FillRect ==
    \E a \in RectArgs : FinishShape("FillRect", Rect(a),
                    CFBDGraphic_FillRect(Rect(a), immediate_draw))

DrawCircle ==
    \E a \in CircleArgs \cup WideCircleArgs :
        FinishShape("DrawCircle", Circle(a),
                    CFBDGraphic_DrawCircle(Circle(a), immediate_draw))

DrawFilledCircle ==
    \E a \in CircleArgs :
        FinishShape("DrawFilledCircle", Circle(a),
                    CFBDGraphic_DrawFilledCircle(Circle(a), immediate_draw))

DrawEllipse ==
    \E a \in EllipseArgs :
        FinishShape("DrawEllipse", Ellipse(a),
                    CFBDGraphic_DrawEllipse(Ellipse(a), immediate_draw))

DrawFilledEllipse ==
    \E a \in EllipseArgs :
        FinishShape("DrawFilledEllipse", Ellipse(a),
                    CFBDGraphic_DrawFilledEllipse(Ellipse(a), immediate_draw))

DrawTriangle ==
    \E a \in TriangleArgs :
        FinishShape("DrawTriangle", Triangle(a),
                    CCGraphic_DrawTriangle(Triangle(a), immediate_draw))

DrawFilledTriangle ==
    \E a \in TriangleArgs :
        FinishShape("DrawFilledTriangle", Triangle(a),
                    CCGraphic_DrawFilledTriangle(Triangle(a), immediate_draw))

DrawArc ==
    \E a \in ArcArgs : FinishShape("DrawArc", Arc(a),
                    CFBDGraphic_DrawArc(Arc(a), immediate_draw))

DrawFilledArc ==
    \E a \in ArcArgs :
        FinishShape("DrawFilledArc", Arc(a),
                    CFBDGraphic_DrawFilledArc(Arc(a), immediate_draw))

NextGfx ==
    \/ SetImmediate
    \/ DeviceUpdate
    \/ DrawLine
    \/ DrawRect
    \/ FillRect
    \/ DrawCircle
    \/ DrawFilledCircle
    \/ DrawEllipse
    \/ DrawFilledEllipse
    \/ DrawTriangle
    \/ DrawFilledTriangle
    \/ DrawArc
    \/ DrawFilledArc

SpecGfx == InitGfx /\ [][NextGfx]_vars

----------------------------------------------------------------------------
(* Properties of the rasterizer                                            *)

ShapeOps ==
    {"DrawLine", "DrawRect", "FillRect", "DrawCircle", "DrawFilledCircle",
     "DrawEllipse", "DrawFilledEllipse", "DrawTriangle", "DrawFilledTriangle",
     "DrawArc", "DrawFilledArc"}

\* the last operation was a shape operation
LastIsShape == last.op \in ShapeOps

\* the geometric bounding box of the last shape, in signed coordinates
ShapeBBox ==
    LET s == last.shape
    IN CASE last.op \in {"DrawCircle", "DrawFilledCircle", "DrawArc", "DrawFilledArc"} ->
                [lx |-> s.center.x - s.radius, ty |-> s.center.y - s.radius,
                 rx |-> s.center.x + s.radius, by |-> s.center.y + s.radius]
         [] last.op \in {"DrawEllipse", "DrawFilledEllipse"} ->
                [lx |-> s.center.x - s.X_Radius, ty |-> s.center.y - s.Y_Radius,
                 rx |-> s.center.x + s.X_Radius, by |-> s.center.y + s.Y_Radius]
         [] last.op = "DrawLine" ->
                [lx |-> Min(s.p_left.x, s.p_right.x), ty |-> Min(s.p_left.y, s.p_right.y),
                 rx |-> Max(s.p_left.x, s.p_right.x), by |-> Max(s.p_left.y, s.p_right.y)]
         [] last.op \in {"DrawRect", "FillRect"} ->
                [lx |-> Min(s.tl.x, s.br.x), ty |-> Min(s.tl.y, s.br.y),
                 rx |-> Max(s.tl.x, s.br.x), by |-> Max(s.tl.y, s.br.y)]
         [] OTHER ->
                [lx |-> Min(Min(s.p1.x, s.p2.x), s.p3.x),
                 ty |-> Min(Min(s.p1.y, s.p2.y), s.p3.y),
                 rx |-> Max(Max(s.p1.x, s.p2.x), s.p3.x),
                 by |-> Max(Max(s.p1.y, s.p2.y), s.p3.y)]

\* the rectangle of the area call c lies inside the bounding box of the shape
CallInsideBBox(c) ==
    /\ ShapeBBox.lx <= CallX(c)
    /\ ShapeBBox.ty <= CallY(c)
    /\ CallX(c) + CallW(c) - 1 <= ShapeBBox.rx
    /\ CallY(c) + CallH(c) - 1 <= ShapeBBox.by

\* the rectangle of the area call c is the bounding box of the shape, its
\* origin moved onto the screen when the box starts left of or above it
CallIsBBox(c) ==
    /\ CallX(c) = Max(ShapeBBox.lx, 0)
    /\ CallY(c) = Max(ShapeBBox.ty, 0)
    /\ CallX(c) + CallW(c) - 1 = ShapeBBox.rx
    /\ CallY(c) + CallH(c) - 1 = ShapeBBox.by

IsUpdateCall(c) == CallOp(c) \in {"update", "update_area"}

\* C8: in deferred mode (immediate_draw false) a shape operation makes no
\* update and no update_area call; only the caller's explicit update
\* streams the cache.
C8_DeferredNeverUpdates ==
    (LastIsShape /\ ~last.imm) =>
        \A n \in 1..Len(calls) : ~IsUpdateCall(calls[n])

\* C9: in immediate mode a shape operation never calls the frame-level
\* update, and every update_area it calls has a rectangle inside the shape's
\* bounding box; the filled circle of radius 10 at (64,32) issues clear_area
\* and update_area with x = 54, y = 22, width = 21, height = 21.
C9_ImmediateUpdateScopedToBBox ==
    (LastIsShape /\ last.imm) =>
        /\ \A n \in 1..Len(calls) :
               /\ CallOp(calls[n]) # "update"
               /\ (CallOp(calls[n]) = "update_area") => CallInsideBBox(calls[n])
        /\ (/\ last.op = "DrawFilledCircle"
            /\ last.shape.center.x = 64
            /\ last.shape.center.y = 32
            /\ last.shape.radius = 10) =>
               /\ calls[1] = Call("clear_area", 54, 22, 21, 21)
               /\ calls[Len(calls)] = Call("update_area", 54, 22, 21, 21)

\* C10: every shape operation first calls clear_area on the shape's bounding
\* box, then makes its setPixel calls, and calls update_area only after the
\* last setPixel and only in immediate mode.
C10_ClearBBoxBeforeDraw ==
    LastIsShape =>
        /\ Len(calls) >= 1
        /\ CallOp(calls[1]) = "clear_area"
        /\ CallIsBBox(calls[1])
        /\ \A n \in 2..Len(calls) :
               \/ CallOp(calls[n]) = "setPixel"
               \/ /\ CallOp(calls[n]) = "update_area"
                  /\ last.imm
                  /\ \A k \in (n + 1)..Len(calls) : CallOp(calls[k]) # "setPixel"

----------------------------------------------------------------------------
(* Encoder operations outside the cache: init, open, close, self_consult   *)

\* static uint8_t ssd1309_inits_commands[]
ssd1309_inits_commands ==
    <<174, 253, 18, 213, 160, 168, 63, 211, 0, 64, 161, 200, 218, 18, 129, 191,
      217, 37, 219, 52, 164, 166, 175>>

\* static uint8_t ssd1327_init_commands[]
ssd1327_init_commands ==
    <<174, 160, 81, 161, 0, 162, 32, 164, 168, 95, 171, 1, 129, 119, 177, 49,
      179, 177, 181, 3, 182, 13, 188, 7, 190, 7, 213, 2, 175>>

\* for (int i = 0; i < init_cmds_sz; i++) send_cmd(internal, init_cmds[i]);
RECURSIVE init_loop_130x(_, _)
init_loop_130x(m, i) ==
    IF Running(m) /\ i < Len(ssd1309_inits_commands)
    THEN init_loop_130x(send_cmd_130x(m, ssd1309_inits_commands[i + 1]), i + 1)
    ELSE m

init_130x(m) == Ret(init_loop_130x(m, 0), TRUE)

open_oled_130x(m) ==
    Ret(send_cmd_130x(send_cmd_130x(send_cmd_130x(m, 141), 20), 175), TRUE)

close_oled_130x(m) ==
    Ret(send_cmd_130x(send_cmd_130x(send_cmd_130x(m, 141), 16), 174), TRUE)

RECURSIVE init_loop_132x(_, _)
init_loop_132x(m, i) ==
    IF Running(m) /\ i < Len(ssd1327_init_commands)
    THEN init_loop_132x(send_cmd_132x(m, ssd1327_init_commands[i + 1]), i + 1)
    ELSE m

init_132x(m) == Ret(init_loop_132x(m, 0), TRUE)

open_oled_132x(m) == Ret(send_cmd_132x(m, 175), TRUE)

close_oled_132x(m) == Ret(send_cmd_132x(m, 174), TRUE)

\* CFBD_FALSE and CFBD_TRUE as stored through a CFBD_Bool pointer
CFBD_FALSE == 0
CFBD_TRUE == 1

\* the result of a query: the return value and the content of *request_data,
\* which holds out before the call
QueryResult(ret, out) == <<ret, out>>

QueryRet(q) == q[1]
QueryOut(q) == q[2]

\* mutation: an unknown key writes the output before failing
iic_query_130x_writes(property, out) ==
    IF property = "rgb" THEN QueryResult(TRUE, CFBD_FALSE)
    ELSE IF property = "width" THEN QueryResult(TRUE, ssd1309_logic_width)
    ELSE IF property = "height" THEN QueryResult(TRUE, ssd1309_logic_height)
    ELSE QueryResult(FALSE, 0)

iic_query_130x(property, out) ==
    IF property = "rgb" THEN QueryResult(TRUE, CFBD_FALSE)
    ELSE IF property = "width" THEN QueryResult(TRUE, ssd1309_logic_width)
    ELSE IF property = "height" THEN QueryResult(TRUE, ssd1309_logic_height)
    ELSE QueryResult(FALSE, out)

iic_query_132x(property, out, grey) ==
    IF property = "rgb" THEN QueryResult(TRUE, CFBD_FALSE)
    ELSE IF property = "width" THEN QueryResult(TRUE, ssd1327_logic_width)
    ELSE IF property = "height" THEN QueryResult(TRUE, ssd1327_logic_height)
    ELSE IF property = "color" THEN QueryResult(TRUE, grey)
    ELSE QueryResult(FALSE, out)

----------------------------------------------------------------------------
(* Graphics device facade: lib/graphic/device.  CFBDGraphic_BindDevice     *)
(* dispatches on the device-type tag; the operations of graphic_oled_ops   *)
(* forward to the encoder behind device->internal_handle.                  *)

CFBDGraphic_BindDevice(dev, device_type, internal_handle, o) ==
    LET written == [dev EXCEPT !.internal_handle = internal_handle,
                               !.device_type = device_type]
    IN IF device_type = "OLED"
       THEN CFBDGraphic_BindOLEDAsDevice(written, internal_handle, o)
       ELSE written

graphic_oled_init(m) == init_130x(m)

graphic_oled_drawArea(m, x, y, width, height, source) ==
    oled_helper_draw_area_130x(m, x, y, width, height, source)

graphic_oled_revert(m) == oled_helper_reverse_130x(m)

\* mutation: the facade forwards revert_area to the encoder's clear_area
graphic_oled_revert_area_clears(m, x, y, w, h) ==
    oled_helper_clear_area_130x(m, x, y, w, h)

graphic_oled_revert_area(m, x, y, w, h) ==
    oled_helper_reversearea_130x(m, x, y, w, h)

graphic_oled_open(m) == open_oled_130x(m)

graphic_oled_close(m) == close_oled_130x(m)

graphic_oled_self_consult(property, out) == iic_query_130x(property, out)

\* the enumerator OLED and a value outside the enumeration
DeviceTypeTags == {"OLED", "1"}

\* the address of the CFBD_OLED structure, or a null pointer
DeviceHandles == {"oled", "NULL"}

\* keys offered to self_consult
QueryKeys == {"width", "height", "rgb", "color", "Width", ""}

\* previous content of the caller's *request_data
QueryCells == {0, 77}

\* the encoder as it stands after the same calls made on oled->ops directly
Direct(m, out) == [g |-> m.g, tx |-> m.tx, ret |-> m.ret, out |-> out]

D130x == Mach(direct.g, CACHED_WIDTH_130x, CACHED_HEIGHT_130x)

\* the program has not run into undefined behaviour
Alive == last.op # "undefined"

\* device->ops is graphic_oled_ops and device->internal_handle is the encoder
Bound ==
    /\ Alive
    /\ device.ops = "graphic_oled_ops"
    /\ device.internal_handle = "oled"

InitFacade ==
    /\ OLED_GRAM = ZeroGram(CACHED_WIDTH_130x, CACHED_HEIGHT_130x)
    /\ grey_scale = 0
    /\ immediate_draw \in BOOLEAN
    /\ pre = OLED_GRAM
    /\ last = NoOp
    /\ acc = [row |-> -1, col |-> -1]
    /\ tx = <<>>
    /\ calls = <<>>
    /\ nops = 0
    /\ oled = CFBD_OLED_IIC130XInit(UnboundOLED, "ssd1309")
    /\ device = UnboundDevice
    /\ bus = I2C_OK
    /\ direct = Direct(M130x, 0)

BindDevice ==
    \E tag \in DeviceTypeTags, h \in DeviceHandles :
        /\ Alive
        /\ device' = CFBDGraphic_BindDevice(device, tag, h, oled)
        /\ last' = [op |-> "BindDevice", tag |-> tag, handle |-> h,
                    before |-> device, imm |-> immediate_draw]
        /\ UNCHANGED <<OLED_GRAM, grey_scale, immediate_draw, pre, acc, tx, calls,
                       nops, oled, bus, direct>>

\* one finished facade call: m is the encoder behind the facade after the
\* call, d the directly driven encoder after the same call
FacadeCall(name, x, y, w, h, src, m, d) ==
    /\ Bound
    /\ nops < MaxOps
    /\ nops' = nops + 1
    /\ pre' = OLED_GRAM
    /\ OLED_GRAM' = m.g
    /\ acc' = [row |-> m.ar, col |-> m.ac]
    /\ tx' = m.tx
    /\ last' = Op(name, x, y, w, h, src, m.ret)
    /\ direct' = Direct(d, direct.out)
    /\ UNCHANGED <<grey_scale, immediate_draw, calls, oled, device, bus>>

\* arguments offered through the facade
FacadePixelArgs == {<<5, 3>>, <<128, 64>>}

FacadeAreaArgs == {<<5, 3, 3, 9>>, <<126, 60, 65535, 65535>>}

FacadeInit ==
    FacadeCall("init", 0, 0, 0, 0, "none", graphic_oled_init(M130x), init_130x(D130x))

FacadeSetPixel ==
    \E a \in FacadePixelArgs :
        FacadeCall("setPixel", a[1], a[2], 0, 0, "none",
                   graphic_oled_setPixel(M130x, a[1], a[2]),
                   setPixel_130x(D130x, a[1], a[2]))

FacadeSetArea ==
    \E a \in FacadeAreaArgs :
        FacadeCall("setArea", a[1], a[2], a[3], a[4], "mix",
                   graphic_oled_drawArea(M130x, a[1], a[2], a[3], a[4], "mix"),
                   oled_helper_draw_area_130x(D130x, a[1], a[2], a[3], a[4], "mix"))

FacadeUpdate ==
    FacadeCall("update", 0, 0, 0, 0, "none", graphic_oled_update(M130x), update_130x(D130x))

FacadeClear ==
    FacadeCall("clear", 0, 0, 0, 0, "none", graphic_oled_clear(M130x), clear_130x(D130x))

FacadeRevert ==
    FacadeCall("revert", 0, 0, 0, 0, "none",
               graphic_oled_revert(M130x), oled_helper_reverse_130x(D130x))

FacadeUpdateArea ==
    \E a \in FacadeAreaArgs :
        FacadeCall("update_area", a[1], a[2], a[3], a[4], "none",
                   graphic_oled_update_area(M130x, a[1], a[2], a[3], a[4]),
                   oled_helper_update_area_130x(D130x, a[1], a[2], a[3], a[4]))

FacadeClearArea ==
    \E a \in FacadeAreaArgs :
        FacadeCall("clear_area", a[1], a[2], a[3], a[4], "none",
                   graphic_oled_clear_area(M130x, a[1], a[2], a[3], a[4]),
                   oled_helper_clear_area_130x(D130x, a[1], a[2], a[3], a[4]))

FacadeRevertArea ==
    \E a \in FacadeAreaArgs :
        FacadeCall("revert_area", a[1], a[2], a[3], a[4], "none",
                   graphic_oled_revert_area(M130x, a[1], a[2], a[3], a[4]),
                   oled_helper_reversearea_130x(D130x, a[1], a[2], a[3], a[4]))

FacadeOpen ==
    FacadeCall("open", 0, 0, 0, 0, "none", graphic_oled_open(M130x), open_oled_130x(D130x))

FacadeClose ==
    FacadeCall("close", 0, 0, 0, 0, "none", graphic_oled_close(M130x), close_oled_130x(D130x))

FacadeSelfConsult ==
    \E key \in QueryKeys, cell \in {77} :
        /\ Bound
        /\ nops < MaxOps
        /\ nops' = nops + 1
        /\ pre' = OLED_GRAM
        /\ tx' = <<>>
        /\ last' = [op |-> "self_consult", key |-> key, before |-> cell,
                    out |-> QueryOut(graphic_oled_self_consult(key, cell)),
                    ret |-> QueryRet(graphic_oled_self_consult(key, cell)),
                    status |-> bus]
        /\ direct' = [direct EXCEPT !.tx = <<>>,
                                    !.ret = QueryRet(iic_query_130x(key, cell)),
                                    !.out = QueryOut(iic_query_130x(key, cell))]
        /\ UNCHANGED <<OLED_GRAM, grey_scale, immediate_draw, acc, calls, oled,
                       device, bus>>

\* a call through graphic_oled_ops while device->internal_handle is null:
\* _get_oled(device)->ops dereferences the null pointer.  The call either
\* never returns or returns after a wild call that may have overwritten
\* the cache.
FacadeThroughNull ==
    /\ Alive
    /\ device.ops = "graphic_oled_ops"
    /\ device.internal_handle = "NULL"
    /\ \E returns \in BOOLEAN :
           last' = [op |-> "undefined", returns |-> returns, status |-> bus]
    /\ \E g \in {OLED_GRAM, ZeroGram(CACHED_WIDTH_130x, CACHED_HEIGHT_130x)} :
           OLED_GRAM' = g
    /\ UNCHANGED <<grey_scale, immediate_draw, pre, acc, tx, calls, nops, oled,
                   device, bus, direct>>

NextFacade ==
    \/ BindDevice
    \/ FacadeInit
    \/ FacadeSetPixel
    \/ FacadeSetArea
    \/ FacadeUpdate
    \/ FacadeClear
    \/ FacadeRevert
    \/ FacadeUpdateArea
    \/ FacadeClearArea
    \/ FacadeRevertArea
    \/ FacadeOpen
    \/ FacadeClose
    \/ FacadeSelfConsult
    \/ FacadeThroughNull

SpecFacade == InitFacade /\ [][NextFacade]_vars

----------------------------------------------------------------------------
(* Properties of the facade                                                *)

\* C11: CFBDGraphic_BindDevice with a device-type tag that has no matching
\* adapter leaves ops, device_type, internal_handle and immediate_draw of the
\* device handle as they were before the call.
C11_UnknownTagLeavesHandle ==
    (last.op = "BindDevice" /\ last.tag # "OLED") =>
        /\ device.ops = last.before.ops
        /\ device.device_type = last.before.device_type
        /\ device.internal_handle = last.before.internal_handle
        /\ immediate_draw = last.imm

FacadeOps ==
    {"init", "setPixel", "setArea", "update", "clear", "revert", "update_area",
     "clear_area", "revert_area", "open", "close", "self_consult"}

----------------------------------------------------------------------------
(* Encoder handle: lib/oled.  CFBD_GetOLEDHandle populates the CFBD_OLED   *)
(* structure; afterwards every call goes through oled->ops.  OLED_GRAM is  *)
(* the cache of the backend the structure is bound to: both backends keep  *)
(* a static array that is all zero until the first call.                   *)

\* args is <<device_specifics->iic_pack_type, the parameter block>>
CFBD_OLED_IICInit(handle, args) ==
    IF args[1] = "SSD130X_REQUEST_IIC_PACK" THEN CFBD_OLED_IIC130XInit(handle, args[2])
    ELSE IF args[1] = "SSD132X_REQUEST_IIC_PACK" THEN CFBD_OLED_IIC132XInit(handle, args[2])
    ELSE handle

\* the structure after the call, the value returned, and whether
\* CFBD_OLED_ImmediateInit is run before returning
CFBD_GetOLEDHandle(o, driver_type, args, request_immediate_init) ==
    IF driver_type = "CFBD_OLEDDriverType_IIC"
    THEN [oled |-> CFBD_OLED_IICInit(o, args), ret |-> TRUE,
          init |-> request_immediate_init]
    ELSE [oled |-> o, ret |-> FALSE, init |-> FALSE]

\* the next call is entered with the previous one returned
Entered(m) == [m EXCEPT !.halt = FALSE]

\* oled->ops->name(oled, ...): the member of the iic_ops table behind o.ops
OledOp(o, name, m, x, y, w, h, src, grey) ==
    IF o.ops = "iic_ops_130x"
    THEN CASE name = "init" -> init_130x(m)
           [] name = "setPixel" -> setPixel_130x(m, x, y)
           [] name = "setArea" -> oled_helper_draw_area_130x(m, x, y, w, h, src)
           [] name = "clear" -> clear_130x(m)
           [] name = "update" -> update_130x(m)
           [] name = "revert" -> oled_helper_reverse_130x(m)
           [] name = "clear_area" -> oled_helper_clear_area_130x(m, x, y, w, h)
           [] name = "update_area" -> oled_helper_update_area_130x(m, x, y, w, h)
           [] name = "revert_area" -> oled_helper_reversearea_130x(m, x, y, w, h)
           [] name = "open" -> open_oled_130x(m)
           [] name = "close" -> close_oled_130x(m)
    ELSE CASE name = "init" -> init_132x(m)
           [] name = "setPixel" -> setPixel_132x(m, x, y, grey)
           [] name = "setArea" -> oled_helper_draw_area_132x(m, x, y, w, h, src, grey)
           [] name = "clear" -> clear_132x(m)
           [] name = "update" -> update_132x(m)
           [] name = "revert" -> oled_helper_reverse_132x(m)
           [] name = "clear_area" -> oled_helper_clear_area_132x(m, x, y, w, h)
           [] name = "update_area" -> oled_helper_update_area_132x(m, x, y, w, h)
           [] name = "revert_area" -> oled_helper_reversearea_132x(m, x, y, w, h)
           [] name = "open" -> open_oled_132x(m)
           [] name = "close" -> close_oled_132x(m)

\* oled->ops->self_consult(oled, property, NULL, &out)
OledQuery(o, property, out, grey) ==
    IF o.ops = "iic_ops_130x" THEN iic_query_130x(property, out)
    ELSE iic_query_132x(property, out, grey)

\* ops->init(oled, NULL); ops->clear(oled); ops->update(oled);
CFBD_OLED_ImmediateInit(o, m, grey) ==
    LET m1 == Entered(OledOp(o, "init", m, 0, 0, 0, 0, "none", grey))
        m2 == Entered(OledOp(o, "clear", m1, 0, 0, 0, 0, "none", grey))
    IN OledOp(o, "update", m2, 0, 0, 0, 0, "none", grey)

\* o.ops points to one of the two operation tables
Populated(o) == o.ops \in {"iic_ops_130x", "iic_ops_132x"}

\* the zeroed cache of the backend behind o, as a machine
OledMach(o, g) ==
    IF o.ops = "iic_ops_132x"
    THEN Mach(g, CACHED_WIDTH_132x, CACHED_HEIGHT_132x)
    ELSE Mach(g, CACHED_WIDTH_130x, CACHED_HEIGHT_130x)

OledZero(o) ==
    IF o.ops = "iic_ops_132x"
    THEN ZeroGram(CACHED_WIDTH_132x, CACHED_HEIGHT_132x)
    ELSE ZeroGram(CACHED_WIDTH_130x, CACHED_HEIGHT_130x)

I2CStatuses ==
    {I2C_OK, I2C_ERR_TIMEOUT, I2C_ERR_NACK, I2C_ERR_BUSY, I2C_ERR_IO, I2C_ERR_INVAL}

DriverTypes == {"CFBD_OLEDDriverType_IIC", "CFBD_OLEDDriverType_SPI"}

\* <<iic_pack_type, parameter block>> of the descriptors a caller may pass
InitsParams ==
    {<<"SSD130X_REQUEST_IIC_PACK", "ssd1309">>,
     <<"SSD132X_REQUEST_IIC_PACK", "ssd1327">>,
     <<"SSD135X_REQUEST_IIC_PACK", "ssd1351">>}

InitOled ==
    /\ OLED_GRAM = ZeroGram(CACHED_WIDTH_130x, CACHED_HEIGHT_130x)
    /\ grey_scale = 0
    /\ immediate_draw = FALSE
    /\ pre = OLED_GRAM
    /\ last = NoOp
    /\ acc = [row |-> -1, col |-> -1]
    /\ tx = <<>>
    /\ calls = <<>>
    /\ nops = 0
    /\ oled = UnboundOLED
    /\ device = UnboundDevice
    /\ bus \in I2CStatuses
    /\ direct = <<>>

\* CFBD_GetOLEDHandle(&oled, driver_type, args, request_immediate_init).  When
\* the immediate initialisation is run on a structure whose ops was never
\* written, ops->init is a call through an indeterminate pointer: it either
\* never returns or returns from a wild call.
GetOLEDHandle ==
    \E driver_type \in DriverTypes, args \in InitsParams,
       request_immediate_init \in BOOLEAN :
        LET r == CFBD_GetOLEDHandle(oled, driver_type, args, request_immediate_init)
            grey == IF r.oled.ops = "iic_ops_132x" THEN ssd1327_grey_scale
                    ELSE grey_scale
            m0 == OledMach(r.oled, OledZero(r.oled))
            m == IF r.init /\ Populated(r.oled)
                 THEN CFBD_OLED_ImmediateInit(r.oled, m0, grey)
                 ELSE m0
        IN /\ Alive
           /\ ~Populated(oled)
           /\ oled' = r.oled
           /\ IF r.init /\ ~Populated(r.oled)
              THEN \E returns \in BOOLEAN :
                       last' = [op |-> "undefined", returns |-> returns,
                                status |-> bus]
              ELSE last' = [op |-> "GetOLEDHandle", driver_type |-> driver_type,
                            pack |-> args[1], immediate |-> r.init,
                            before |-> oled, ret |-> r.ret, status |-> bus]
           /\ pre' = m0.g
           /\ OLED_GRAM' = m.g
           /\ acc' = [row |-> m.ar, col |-> m.ac]
           /\ tx' = m.tx
           /\ grey_scale' = grey
           /\ UNCHANGED <<immediate_draw, calls, nops, device, bus, direct>>

\* one finished call through oled->ops
OledCall(name, x, y, w, h, src) ==
    /\ Alive
    /\ Populated(oled)
    /\ Finish(name, x, y, w, h, src,
              OledOp(oled, name, OledMach(oled, OLED_GRAM), x, y, w, h, src, grey_scale))

\* arguments offered through oled->ops
OledPixelArgs == {<<5, 3>>, <<128, 0>>}

OledAreaArgs == {<<5, 3, 3, 9>>}

OledUpdateArgs == {<<5, 3, 3, 9>>, <<128, 0, 1, 1>>}

OledInit == OledCall("init", 0, 0, 0, 0, "none")

OledSetPixel == \E a \in OledPixelArgs : OledCall("setPixel", a[1], a[2], 0, 0, "none")

OledSetArea ==
    \E a \in OledAreaArgs : OledCall("setArea", a[1], a[2], a[3], a[4], "mix")

OledClear == OledCall("clear", 0, 0, 0, 0, "none")

OledUpdate == OledCall("update", 0, 0, 0, 0, "none")

OledRevert == OledCall("revert", 0, 0, 0, 0, "none")

OledClearArea ==
    \E a \in OledAreaArgs : OledCall("clear_area", a[1], a[2], a[3], a[4], "none")

OledUpdateArea ==
    \E a \in OledUpdateArgs : OledCall("update_area", a[1], a[2], a[3], a[4], "none")

OledRevertArea ==
    \E a \in OledAreaArgs : OledCall("revert_area", a[1], a[2], a[3], a[4], "none")

OledOpen == OledCall("open", 0, 0, 0, 0, "none")

OledClose == OledCall("close", 0, 0, 0, 0, "none")

OledSelfConsult ==
    \E key \in QueryKeys, cell \in QueryCells :
        /\ Alive
        /\ Populated(oled)
        /\ nops < MaxOps
        /\ nops' = nops + 1
        /\ pre' = OLED_GRAM
        /\ tx' = <<>>
        /\ last' = [op |-> "self_consult", key |-> key, before |-> cell,
                    out |-> QueryOut(OledQuery(oled, key, cell, grey_scale)),
                    ret |-> QueryRet(OledQuery(oled, key, cell, grey_scale)),
                    status |-> bus]
        /\ UNCHANGED <<OLED_GRAM, grey_scale, immediate_draw, acc, calls, wiring>>

NextOled ==
    \/ GetOLEDHandle
    \/ OledInit
    \/ OledSetPixel
    \/ OledSetArea
    \/ OledClear
    \/ OledUpdate
    \/ OledRevert
    \/ OledClearArea
    \/ OledUpdateArea
    \/ OledRevertArea
    \/ OledOpen
    \/ OledClose
    \/ OledSelfConsult

SpecOled == InitOled /\ [][NextOled]_vars

----------------------------------------------------------------------------
(* Properties of the encoder handle                                        *)

\* C13: when the transfers issued by update or update_area are answered with
\* a status other than I2C_OK, the encoder operation returns false.
C13_TransportErrorReported ==
    (/\ last.op \in {"update", "update_area"}
     /\ Len(tx) > 0
     /\ last.status # I2C_OK) => ~last.ret

CacheOps == {"setPixel", "setArea", "clear", "clear_area", "revert", "revert_area"}

KnownKeys ==
    IF oled.ops = "iic_ops_132x" THEN {"width", "height", "rgb", "color"}
    ELSE {"width", "height", "rgb"}

logic_width == IF oled.ops = "iic_ops_132x" THEN ssd1327_logic_width ELSE ssd1309_logic_width

logic_height ==
    IF oled.ops = "iic_ops_132x" THEN ssd1327_logic_height ELSE ssd1309_logic_height

\* C15: self_consult succeeds for "width", "height" and "rgb", writing the
\* logical width, the logical height and false; for a key the encoder does not
\* know it returns failure, leaves the output as it was and leaves the cache
\* unchanged.
C15_SelfConsult ==
    (last.op = "self_consult") =>
        /\ (last.key = "width") => (last.ret /\ last.out = logic_width)
        /\ (last.key = "height") => (last.ret /\ last.out = logic_height)
        /\ (last.key = "rgb") => (last.ret /\ last.out = CFBD_FALSE)
        /\ (last.key \notin KnownKeys) => (~last.ret /\ last.out = last.before)
        /\ OLED_GRAM = pre
        /\ tx = <<>>

C15_Witness ==
    /\ last.op = "self_consult"
    /\ last.key = "color"
    /\ oled.ops = "iic_ops_130x"
    /\ last.before = 77
    /\ OLED_GRAM # OledZero(oled)

\* C16: CFBD_GetOLEDHandle returns CFBD_TRUE only with the structure
\* populated, returns CFBD_FALSE with the structure unchanged, and never runs
\* the immediate init/clear/update with oled->ops unbound.
C16_TrueOnlyWhenPopulated ==
    /\ (last.op = "GetOLEDHandle" /\ last.ret) =>
           /\ Populated(oled)
           /\ oled.driver_type = last.driver_type
           /\ oled.oled_internal_handle # "indeterminate"
    /\ (last.op = "GetOLEDHandle" /\ ~last.ret) =>
           /\ oled.ops = last.before.ops
           /\ oled.driver_type = last.before.driver_type
           /\ oled.oled_internal_handle = last.before.oled_internal_handle
    /\ last.op # "undefined"

----------------------------------------------------------------------------
(* Rectangle utilities: rectangle.h / rectangle.c                          *)

rect_width(r) ==
    LET n == rect_normalize(r)
    IN asInt32_t(n.br.x) - asInt32_t(n.tl.x)

rect_height(r) ==
    LET n == rect_normalize(r)
    IN asInt32_t(n.br.y) - asInt32_t(n.tl.y)

rect_is_empty(r) == rect_width(r) = 0 \/ rect_height(r) = 0

rect_area(r) == IF rect_is_empty(r) THEN 0 ELSE rect_width(r) * rect_height(r)

\* mutation: the far corner is taken inclusive, at x + w - 1 and y + h - 1
rect_from_xywh_inclusive(x, y, w, h) ==
    rect_normalize([tl |-> [x |-> clamp_u16_from_i32(x), y |-> clamp_u16_from_i32(y)],
                    br |-> [x |-> clamp_u16_from_i32(x + w - 1),
                            y |-> clamp_u16_from_i32(y + h - 1)]])

rect_from_xywh(x, y, w, h) ==
    rect_normalize([tl |-> [x |-> clamp_u16_from_i32(x), y |-> clamp_u16_from_i32(y)],
                    br |-> [x |-> clamp_u16_from_i32(x + w),
                            y |-> clamp_u16_from_i32(y + h)]])

rect_contains_point(r, p) ==
    LET n == rect_normalize(r)
    IN p.x >= n.tl.x /\ p.x <= n.br.x /\ p.y >= n.tl.y /\ p.y <= n.br.y

\* mutation: an inverted extent is not collapsed to the near edge
rect_intersection_unfixed(a, b) ==
    LET A == rect_normalize(a)
        B == rect_normalize(b)
        lx == Max(asInt32_t(A.tl.x), asInt32_t(B.tl.x))
        ty == Max(asInt32_t(A.tl.y), asInt32_t(B.tl.y))
        rx == Min(asInt32_t(A.br.x), asInt32_t(B.br.x))
        by == Min(asInt32_t(A.br.y), asInt32_t(B.br.y))
    IN [tl |-> [x |-> clamp_u16_from_i32(lx), y |-> clamp_u16_from_i32(ty)],
        br |-> [x |-> clamp_u16_from_i32(rx), y |-> clamp_u16_from_i32(by)]]

rect_intersection(a, b) ==
    LET A == rect_normalize(a)
        B == rect_normalize(b)
        lx == Max(asInt32_t(A.tl.x), asInt32_t(B.tl.x))
        ty == Max(asInt32_t(A.tl.y), asInt32_t(B.tl.y))
        rx0 == Min(asInt32_t(A.br.x), asInt32_t(B.br.x))
        by0 == Min(asInt32_t(A.br.y), asInt32_t(B.br.y))
        rx == IF rx0 < lx THEN lx ELSE rx0
        by == IF by0 < ty THEN ty ELSE by0
    IN [tl |-> [x |-> clamp_u16_from_i32(lx), y |-> clamp_u16_from_i32(ty)],
        br |-> [x |-> clamp_u16_from_i32(rx), y |-> clamp_u16_from_i32(by)]]

\* mutation: the far corner of the union is the first rectangle's
rect_union_first(a, b) ==
    LET A == rect_normalize(a)
        B == rect_normalize(b)
        lx == IF asInt32_t(A.tl.x) < asInt32_t(B.tl.x) THEN asInt32_t(A.tl.x)
              ELSE asInt32_t(B.tl.x)
        ty == IF asInt32_t(A.tl.y) < asInt32_t(B.tl.y) THEN asInt32_t(A.tl.y)
              ELSE asInt32_t(B.tl.y)
    IN [tl |-> [x |-> clamp_u16_from_i32(lx), y |-> clamp_u16_from_i32(ty)],
        br |-> [x |-> clamp_u16_from_i32(asInt32_t(A.br.x)),
                y |-> clamp_u16_from_i32(asInt32_t(A.br.y))]]

rect_union(a, b) ==
    LET A == rect_normalize(a)
        B == rect_normalize(b)
        lx == IF asInt32_t(A.tl.x) < asInt32_t(B.tl.x) THEN asInt32_t(A.tl.x)
              ELSE asInt32_t(B.tl.x)
        ty == IF asInt32_t(A.tl.y) < asInt32_t(B.tl.y) THEN asInt32_t(A.tl.y)
              ELSE asInt32_t(B.tl.y)
        rx == IF asInt32_t(A.br.x) > asInt32_t(B.br.x) THEN asInt32_t(A.br.x)
              ELSE asInt32_t(B.br.x)
        by == IF asInt32_t(A.br.y) > asInt32_t(B.br.y) THEN asInt32_t(A.br.y)
              ELSE asInt32_t(B.br.y)
    IN [tl |-> [x |-> clamp_u16_from_i32(lx), y |-> clamp_u16_from_i32(ty)],
        br |-> [x |-> clamp_u16_from_i32(rx), y |-> clamp_u16_from_i32(by)]]

\* coordinates of the rectangles offered to the utilities
RectXs == {0, 4, 9, 65535}

RectYs == {0, 5}

Rects ==
    {[tl |-> Pt(x1, y1), br |-> Pt(x2, y2)] :
         x1 \in RectXs, y1 \in RectYs, x2 \in RectXs, y2 \in RectYs}

\* <<x, y, w, h>> offered to rect_from_xywh
XYWHs == {-5, 0, 3, 65525, 65530} \X {-5, 0, 65530} \X {1, 10} \X {1, 10}

\* the arguments of one run: two rectangles and one <<x, y, w, h>>
RectInputs ==
    {<<a, b, <<0, 0, 1, 1>> >> : a \in Rects, b \in Rects}
    \cup {<<Rect(<<0, 0, 0, 0>>), Rect(<<0, 0, 0, 0>>), q>> : q \in XYWHs}

InitRect ==
    /\ OLED_GRAM = ZeroGram(CACHED_WIDTH_130x, CACHED_HEIGHT_130x)
    /\ grey_scale = 0
    /\ immediate_draw = FALSE
    /\ pre = OLED_GRAM
    /\ \E i \in RectInputs :
           last = [op |-> "none", a |-> i[1], b |-> i[2], q |-> i[3], result |-> i[1]]
    /\ acc = [row |-> -1, col |-> -1]
    /\ tx = <<>>
    /\ calls = <<>>
    /\ nops = 0
    /\ oled = UnboundOLED
    /\ device = UnboundDevice
    /\ bus = I2C_OK
    /\ direct = <<>>

\* the utility name has been applied to the arguments of the run
RectResult(name, r) ==
    /\ last' = [last EXCEPT !.op = name, !.result = r]
    /\ UNCHANGED <<OLED_GRAM, grey_scale, immediate_draw, pre, acc, tx, calls, nops,
                   wiring>>

RectNormalize == RectResult("rect_normalize", rect_normalize(last.a))

RectFromXYWH ==
    RectResult("rect_from_xywh",
               rect_from_xywh(last.q[1], last.q[2], last.q[3], last.q[4]))

RectIntersection == RectResult("rect_intersection", rect_intersection(last.a, last.b))

RectUnion == RectResult("rect_union", rect_union(last.a, last.b))

NextRect ==
    \/ RectNormalize
    \/ RectFromXYWH
    \/ RectIntersection
    \/ RectUnion

SpecRect == InitRect /\ [][NextRect]_vars


\* C17: rect_normalize returns a rectangle whose top-left corner is at or
\* before its bottom-right corner on both axes, and normalizing that result
\* again returns it unchanged.
C17_NormalizeOrdersAndIsIdempotent ==
    last.op = "rect_normalize" =>
        /\ last.result.tl.x <= last.result.br.x
        /\ last.result.tl.y <= last.result.br.y
        /\ rect_normalize(last.result).tl.x = last.result.tl.x
        /\ rect_normalize(last.result).tl.y = last.result.tl.y
        /\ rect_normalize(last.result).br.x = last.result.br.x
        /\ rect_normalize(last.result).br.y = last.result.br.y

\* a rectangle given with both axes reversed has been normalized
C17_Witness ==
    /\ last.op = "rect_normalize"
    /\ last.a.tl.x > last.a.br.x
    /\ last.a.tl.y > last.a.br.y

\* C18 as stated: for every x and y and every positive w and h, the rectangle
\* built by rect_from_xywh(x, y, w, h) has width w and height h.
C18_FromXYWHKeepsSize ==
    (last.op = "rect_from_xywh" /\ last.q[3] > 0 /\ last.q[4] > 0) =>
        /\ rect_width(last.result) = last.q[3]
        /\ rect_height(last.result) = last.q[4]

\* both corners of the requested rectangle lie in the 16-bit coordinate range
InRange(q) ==
    /\ 0 <= q[1]
    /\ 0 <= q[2]
    /\ q[1] + q[3] <= 65535
    /\ q[2] + q[4] <= 65535

\* C18 amended: for positive w and h, and x, y with 0 <= x, 0 <= y,
\* x + w <= 65535 and y + h <= 65535, the rectangle built by
\* rect_from_xywh(x, y, w, h) has width w and height h.
C18_FromXYWHKeepsSizeInRange ==
    (last.op = "rect_from_xywh" /\ last.q[3] > 0 /\ last.q[4] > 0 /\ InRange(last.q)) =>
        /\ rect_width(last.result) = last.q[3]
        /\ rect_height(last.result) = last.q[4]

\* a rectangle away from the origin and wholly in range has been built
C18_Witness ==
    /\ last.op = "rect_from_xywh"
    /\ last.q[1] > 0
    /\ last.q[3] > 1
    /\ last.q[4] > 1
    /\ InRange(last.q)

\* the normalized rectangles share no interior point
Disjoint(a, b) ==
    LET A == rect_normalize(a)
        B == rect_normalize(b)
    IN \/ A.br.x <= B.tl.x
       \/ B.br.x <= A.tl.x
       \/ A.br.y <= B.tl.y
       \/ B.br.y <= A.tl.y

\* C19: the intersection of two rectangles that do not overlap has area 0.
C19_DisjointIntersectionIsEmpty ==
    (last.op = "rect_intersection" /\ Disjoint(last.a, last.b)) =>
        rect_area(last.result) = 0

\* two rectangles of positive area, a gap between them on the x axis, have
\* been intersected
C19_Witness ==
    /\ last.op = "rect_intersection"
    /\ rect_area(last.a) > 0
    /\ rect_area(last.b) > 0
    /\ rect_normalize(last.a).br.x < rect_normalize(last.b).tl.x

\* the four corners of the normalized rectangle
Corners(r) ==
    LET n == rect_normalize(r)
    IN {Pt(n.tl.x, n.tl.y), Pt(n.br.x, n.tl.y), Pt(n.tl.x, n.br.y), Pt(n.br.x, n.br.y)}

\* C20: the union of two rectangles contains, in the sense of
\* rect_contains_point, every corner of the normalized first rectangle and
\* every corner of the normalized second rectangle.
C20_UnionContainsCorners ==
    last.op = "rect_union" =>
        \A p \in Corners(last.a) \cup Corners(last.b) :
            rect_contains_point(last.result, p)

\* the union of a rectangle with one lying beyond it on both axes, the latter
\* given with its corners reversed, has been taken
C20_Witness ==
    /\ last.op = "rect_union"
    /\ rect_normalize(last.a).br.x < rect_normalize(last.b).tl.x
    /\ rect_normalize(last.a).br.y < rect_normalize(last.b).tl.y
    /\ last.b.tl.x > last.b.br.x

----------------------------------------------------------------------------
(* Further properties of the 1-bit paged encoder                           *)

\* the last call was a setArea of 8 rows, off the page grid, whose rows and
\* columns all lie on the logical screen
UnalignedArea130x ==
    /\ last.op = "setArea" /\ last.h = 8 /\ last.w >= 1
    /\ last.y % 8 # 0
    /\ last.x + last.w <= ssd1309_logic_width
    /\ last.y + 8 <= ssd1309_logic_height

\* the low n bits of byte b, in place
LowBits(b, n) == b % Pow2(n)

\* the bits of byte b above its low n bits, in place
HighBits(b, n) == b - (b % Pow2(n))

\* C23 as stated: with s = y mod 8 # 0, the low 8 - s bits of each source
\* byte are stored in the current page shifted right by s, and its other
\* bits in the next page shifted left by 8 - s.
C23_SplitRightThenLeft ==
    UnalignedArea130x =>
        LET s == last.y % 8
            p == last.y \div 8
        IN \A i \in 0..(last.w - 1) :
               LET b == SrcByte(last.src, i)
                   c == last.x + i
               IN /\ OLED_GRAM[p][c] =
                         BitOr(LowBits(pre[p][c], s), LowBits(b, 8 - s) \div Pow2(s))
                  /\ OLED_GRAM[p + 1][c] =
                         BitOr(HighBits(pre[p + 1][c], s),
                               U8(HighBits(b, 8 - s) * Pow2(8 - s)))

\* C23 amended: with s = y mod 8 # 0, the low 8 - s bits of each source byte
\* are stored in bits s..7 of the current page (the byte shifted left by s),
\* and its high s bits in bits 0..s-1 of the next page (the byte shifted right
\* by 8 - s); the other bits of the two destination bytes keep their values.
C23_SplitLeftThenRight ==
    UnalignedArea130x =>
        LET s == last.y % 8
            p == last.y \div 8
        IN \A i \in 0..(last.w - 1) :
               LET b == SrcByte(last.src, i)
                   c == last.x + i
               IN /\ OLED_GRAM[p][c] =
                         BitOr(LowBits(pre[p][c], s), LowBits(b, 8 - s) * Pow2(s))
                  /\ OLED_GRAM[p + 1][c] =
                         BitOr(HighBits(pre[p + 1][c], s), b \div Pow2(8 - s))

\* an unaligned setArea has stored a source byte with pixels in both parts
\* over two bytes that held other pixels
C23_Witness ==
    /\ UnalignedArea130x /\ last.ret
    /\ LowBits(SrcByte(last.src, 0), 8 - (last.y % 8)) # 0
    /\ SrcByte(last.src, 0) \div Pow2(8 - (last.y % 8)) # 0
    /\ SrcByte(last.src, 0) # 255
    /\ pre[last.y \div 8][last.x] = 255
    /\ pre[last.y \div 8 + 1][last.x] = 255


\* the pages touched by the last rectangle cut to the screen, first and last,
\* with the division of C
FirstPage130x == last.y \div 8
LastPage130x == CDiv(last.y + ClampH130x - 1, 8)

\* transfers made for one page: three cursor commands, one per streamed byte
PageXfers130x == 3 + ClampW130x

\* transfer n carries command byte v behind the command prefix
IsCmdXfer(n, v) ==
    /\ tx[n].kind = "cmd"
    /\ tx[n].prefix = ssd1309_cmd_prefix
    /\ Len(tx[n].bytes) = 1
    /\ tx[n].bytes[1] = v

\* transfer n carries cache byte [r][c] behind the data prefix
IsDataXfer(n, r, c) ==
    /\ tx[n].kind = "data"
    /\ tx[n].prefix = ssd1309_data_prefix
    /\ tx[n].row = r
    /\ tx[n].col = c
    /\ Len(tx[n].bytes) = 1
    /\ tx[n].bytes[1] = OLED_GRAM[r][c]

\* C24: update_area visits the pages y/8 .. (y+h-1)/8 of the rectangle in
\* ascending order; for each page it first sends the three cursor commands
\* (page, high nibble of column x, low nibble of column x) and then streams
\* the bytes of that page for the columns x .. x+w-1; every transfer is one
\* prefix byte followed by its payload, and nothing else is sent.  A rejected
\* request sends nothing.
C24_UpdateAreaSequence ==
    (last.op = "update_area") =>
        IF last.ret
        THEN /\ Len(tx) = (LastPage130x - FirstPage130x + 1) * PageXfers130x
             /\ \A k \in 0..(LastPage130x - FirstPage130x) :
                    LET base == k * PageXfers130x
                        page == FirstPage130x + k
                    IN /\ IsCmdXfer(base + 1, 176 + page)
                       /\ IsCmdXfer(base + 2, 16 + (last.x \div 16))
                       /\ IsCmdXfer(base + 3, last.x % 16)
                       /\ \A j \in 0..(ClampW130x - 1) :
                              IsDataXfer(base + 4 + j, page, last.x + j)
        ELSE tx = <<>>

\* an update_area over two pages and several columns has streamed pixels
C24_Witness ==
    /\ last.op = "update_area" /\ last.ret
    /\ LastPage130x > FirstPage130x
    /\ ClampW130x >= 2
    /\ last.x % 16 # 0
    /\ Len(tx) = 2 * PageXfers130x
    /\ tx[Len(tx)].bytes[1] # 0


\* what clear_area answers to the arguments of the last call
ClearAreaAccepts130x ==
    oled_helper_clear_area_130x(
        Mach(pre, CACHED_WIDTH_130x, CACHED_HEIGHT_130x),
        last.x, last.y, last.w, last.h).ret

\* the cache after the last revert_area is applied once more
RevertAreaAgain130x ==
    oled_helper_reversearea_130x(M130x, last.x, last.y, last.w, last.h).g

\* C25 (1bpp): revert_area(x, y, w, h) inverts exactly the pixels of the
\* rectangle cut to the logical screen and changes nothing else, it rejects
\* exactly the rectangles that clear_area rejects, and a second revert_area
\* with the same arguments (a second revert) restores the cache.
C25_RevertAreaExact ==
    /\ (last.op = "revert_area") =>
           /\ last.ret = ClearAreaAccepts130x
           /\ \A r \in Rows130x, c \in Cols130x, k \in 0..7 :
                  Bit(OLED_GRAM[r][c], k) =
                      IF InRect130x(c, 8 * r + k, last.x, last.y, last.w, last.h)
                      THEN 1 - Bit(pre[r][c], k)
                      ELSE Bit(pre[r][c], k)
           /\ RevertAreaAgain130x = pre
    /\ (last.op = "revert") => oled_helper_reverse_130x(M130x).g = pre


\* C28: setArea(x, y, w, h, src) changes no pixel outside the rectangle
\* [x, x+w) x [y, y+h) cut to the logical screen, whatever the height (a
\* multiple of 8 or not) and the width (reaching past the screen or not).
C28_SetAreaFrame ==
    (last.op = "setArea") =>
        \A r \in Rows130x, c \in Cols130x, k \in 0..7 :
            InRect130x(c, 8 * r + k, last.x, last.y, last.w, last.h)
            \/ Bit(OLED_GRAM[r][c], k) = Bit(pre[r][c], k)

----------------------------------------------------------------------------
(* Pixels drawn by the rasterizer                                          *)

\* the points named by the setPixel calls of the last operation
SetPoints == {<<CallX(calls[n]), CallY(calls[n])>> : n \in {k \in 1..Len(calls) : CallOp(calls[k]) = "setPixel"}}

\* (x, y) is a pixel the last rectangle operation has to set: for DrawRect a
\* point of one of the four edges of the normalized rectangle, for FillRect
\* any point of the normalized rectangle
RectWants(x, y) ==
    LET n == rect_normalize(last.shape)
    IN /\ n.tl.x <= x /\ x <= n.br.x
       /\ n.tl.y <= y /\ y <= n.br.y
       /\ \/ last.op = "FillRect"
          \/ x = n.tl.x \/ x = n.br.x
          \/ y = n.tl.y \/ y = n.br.y

\* C27: for a rectangle with corners in any order, DrawRect sets exactly the
\* pixels on the four edges of the normalized rectangle (one pixel for a 1x1
\* rectangle) and none inside, and FillRect sets exactly the pixels with
\* tl.x <= x <= br.x and tl.y <= y <= br.y of the normalized rectangle: these
\* are the points passed to setPixel, and on the screen the pixels of the
\* rectangle are lit exactly there while every other pixel keeps its value.
C27_RectPixels ==
    (last.op \in {"DrawRect", "FillRect"}) =>
        LET n == rect_normalize(last.shape)
        IN /\ SetPoints = {q \in (n.tl.x..n.br.x) \X (n.tl.y..n.br.y) : RectWants(q[1], q[2])}
           /\ \A px \in 0..(ssd1309_logic_width - 1), py \in 0..(ssd1309_logic_height - 1) :
                  Pixel130x(OLED_GRAM, px, py) =
                      IF n.tl.x <= px /\ px <= n.br.x /\ n.tl.y <= py /\ py <= n.br.y
                      THEN (IF RectWants(px, py) THEN 1 ELSE 0)
                      ELSE Pixel130x(pre, px, py)

\* the outline of a rectangle given with its corners reversed has been
\* drawn: the edge is lit and the inside is dark
C27_Witness ==
    /\ last.op = "DrawRect"
    /\ last.shape.tl.x > last.shape.br.x + 1
    /\ last.shape.tl.y > last.shape.br.y + 1
    /\ Len(calls) > 4
    /\ Pixel130x(OLED_GRAM, last.shape.br.x + 1, last.shape.br.y + 1) = 0
    /\ Pixel130x(OLED_GRAM, last.shape.tl.x, last.shape.br.y + 1) = 1


\* (x, y) is a pixel of the logical screen
OnScreen130x(x, y) == x < ssd1309_logic_width /\ y < ssd1309_logic_height

\* C29: DrawLine returns for every pair of end points of the unsigned 16-bit
\* range, also for a horizontal or vertical line whose larger coordinate is
\* 65535, and it has set each end point that lies on the screen.
C29_DrawLineTerminates ==
    (last.op = "DrawLine") =>
        /\ ~Diverged(calls)
        /\ OnScreen130x(last.shape.p_left.x, last.shape.p_left.y) =>
               /\ <<last.shape.p_left.x, last.shape.p_left.y>> \in SetPoints
               /\ Pixel130x(OLED_GRAM, last.shape.p_left.x, last.shape.p_left.y) = 1
        /\ OnScreen130x(last.shape.p_right.x, last.shape.p_right.y) =>
               /\ <<last.shape.p_right.x, last.shape.p_right.y>> \in SetPoints
               /\ Pixel130x(OLED_GRAM, last.shape.p_right.x, last.shape.p_right.y) = 1


\* the candidate points of the last arc: the points its loop offers to the
\* window test, obtained by running it with a window no angle falls out of
ArcCandidates ==
    LET cs == CFBDGraphic_DrawArc(
                  [last.shape EXCEPT !.start_degree = -181, !.end_degree = 181], FALSE)
    IN {<<CallX(cs[n]), CallY(cs[n])>> :
            n \in {k \in 1..Len(cs) : CallOp(cs[k]) = "setPixel"}}

\* the angle, in degrees, of candidate p seen from the centre of the last arc
CandidateAngle(p) ==
    point_angle(I16(p[1] - last.shape.center.x), I16(p[2] - last.shape.center.y))

\* C26: DrawArc plots only candidate points of its circle; when
\* start_degree > end_degree the window crosses 0 degrees and a candidate is
\* plotted exactly when its angle is at or beyond start or at or before end,
\* so none in the gap between end and start; when start < end a candidate
\* strictly between start and end is plotted and none outside start..end is.
C26_ArcWindow ==
    (last.op = "DrawArc") =>
        /\ SetPoints \subseteq ArcCandidates
        /\ \A p \in ArcCandidates :
               LET a == CandidateAngle(p)
                   s == last.shape.start_degree
                   e == last.shape.end_degree
               IN IF s > e
                  THEN (p \in SetPoints) <=> (a >= s \/ a <= e)
                  ELSE /\ (s < a /\ a < e) => p \in SetPoints
                       /\ (p \in SetPoints) => (s <= a /\ a <= e)


\* the integer part of the square root of n
RECURSIVE ISqrtFrom(_, _)
ISqrtFrom(n, k) == IF (k + 1) * (k + 1) > n THEN k ELSE ISqrtFrom(n, k + 1)

ISqrt(n) == ISqrtFrom(n, 0)

\* the integer distance of pixel (px, py) from the centre of the last shape
CenterDistance(px, py) ==
    ISqrt((px - last.shape.center.x) * (px - last.shape.center.x)
          + (py - last.shape.center.y) * (py - last.shape.center.y))

----------------------------------------------------------------------------
(* Line clipping: cs_compute_code and rect_clip_line of rectangle.c        *)

CS_LEFT == 1
CS_RIGHT == 2
CS_BOTTOM == 4
CS_TOP == 8

cs_compute_code(r, x, y) ==
    LET n == rect_normalize(r)
    IN (IF x < asInt32_t(n.tl.x) THEN CS_LEFT
        ELSE IF x > asInt32_t(n.br.x) THEN CS_RIGHT ELSE 0)
       + (IF y < asInt32_t(n.tl.y) THEN CS_TOP
          ELSE IF y > asInt32_t(n.br.y) THEN CS_BOTTOM ELSE 0)

\* a + (int32_t) ((double) d * t / (double) e): the quotient of the two
\* doubles converted to int32_t is cut toward zero
clip_cut(a, d, t, e) == a + CDiv(d * t, e)

\* the point where the segment (x0, y0)-(x1, y1) is moved to for outcode
clip_point(n, outcode, x0, y0, x1, y1) ==
    IF BitAnd(outcode, CS_TOP) # 0
    THEN [x |-> clip_cut(x0, x1 - x0, asInt32_t(n.tl.y) - y0, y1 - y0),
          y |-> asInt32_t(n.tl.y)]
    ELSE IF BitAnd(outcode, CS_BOTTOM) # 0
    THEN [x |-> clip_cut(x0, x1 - x0, asInt32_t(n.br.y) - y0, y1 - y0),
          y |-> asInt32_t(n.br.y)]
    ELSE IF BitAnd(outcode, CS_RIGHT) # 0
    THEN [x |-> asInt32_t(n.br.x),
          y |-> clip_cut(y0, y1 - y0, asInt32_t(n.br.x) - x0, x1 - x0)]
    ELSE IF BitAnd(outcode, CS_LEFT) # 0
    THEN [x |-> asInt32_t(n.tl.x),
          y |-> clip_cut(y0, y1 - y0, asInt32_t(n.tl.x) - x0, x1 - x0)]
    ELSE [x |-> 0, y |-> 0]

\* while (1) { ... } of rect_clip_line
RECURSIVE clip_loop(_, _, _, _, _, _, _)
clip_loop(n, x0, y0, x1, y1, code0, code1) ==
    IF BitOr(code0, code1) = 0
    THEN [accept |-> TRUE, x0 |-> x0, y0 |-> y0, x1 |-> x1, y1 |-> y1]
    ELSE IF BitAnd(code0, code1) # 0
    THEN [accept |-> FALSE, x0 |-> x0, y0 |-> y0, x1 |-> x1, y1 |-> y1]
    ELSE LET outcode == IF code0 # 0 THEN code0 ELSE code1
             p == clip_point(n, outcode, x0, y0, x1, y1)
         IN IF outcode = code0
            THEN clip_loop(n, p.x, p.y, x1, y1, cs_compute_code(n, p.x, p.y), code1)
            ELSE clip_loop(n, x0, y0, p.x, p.y, code0, cs_compute_code(n, p.x, p.y))

\* the answer and the two end points as the call leaves them
rect_clip_line(r, p0, p1) ==
    LET n == rect_normalize(r)
        e == clip_loop(n, asInt32_t(p0.x), asInt32_t(p0.y), asInt32_t(p1.x),
                       asInt32_t(p1.y),
                       cs_compute_code(n, asInt32_t(p0.x), asInt32_t(p0.y)),
                       cs_compute_code(n, asInt32_t(p1.x), asInt32_t(p1.y)))
    IN IF e.accept
       THEN [accept |-> TRUE,
             p0 |-> Pt(clamp_u16_from_i32(e.x0), clamp_u16_from_i32(e.y0)),
             p1 |-> Pt(clamp_u16_from_i32(e.x1), clamp_u16_from_i32(e.y1))]
       ELSE [accept |-> FALSE, p0 |-> p0, p1 |-> p1]

\* clipping rectangles, corners in both orders, a point and a row among them
ClipRects == {<<2, 2, 6, 5>>, <<6, 5, 2, 2>>, <<3, 3, 3, 3>>, <<2, 3, 8, 3>>}

\* end points offered to rect_clip_line
ClipPoints == {0, 3, 4, 8} \X {1, 2, 3, 7}

InitClip ==
    /\ OLED_GRAM = ZeroGram(CACHED_WIDTH_130x, CACHED_HEIGHT_130x)
    /\ grey_scale = 0
    /\ immediate_draw = FALSE
    /\ pre = OLED_GRAM
    /\ \E a \in ClipRects, u \in ClipPoints, v \in ClipPoints :
           last = [op |-> "none", r |-> Rect(a), p0 |-> Pt(u[1], u[2]),
                   p1 |-> Pt(v[1], v[2]), accept |-> FALSE,
                   q0 |-> Pt(u[1], u[2]), q1 |-> Pt(v[1], v[2])]
    /\ acc = [row |-> -1, col |-> -1]
    /\ tx = <<>>
    /\ calls = <<>>
    /\ nops = 0
    /\ oled = UnboundOLED
    /\ device = UnboundDevice
    /\ bus = I2C_OK
    /\ direct = <<>>

\* rect_clip_line(&r, &p0, &p1): q0 and q1 are the end points after the call
RectClipLine ==
    /\ last.op = "none"
    /\ LET c == rect_clip_line(last.r, last.p0, last.p1)
       IN last' = [last EXCEPT !.op = "rect_clip_line", !.accept = c.accept,
                               !.q0 = c.p0, !.q1 = c.p1]
    /\ UNCHANGED <<OLED_GRAM, grey_scale, immediate_draw, pre, acc, tx, calls, nops,
                   wiring>>

NextClip == RectClipLine

SpecClip == InitClip /\ [][NextClip]_vars

\* the side of the line through p0 and p1 on which the point (cx, cy) lies:
\* positive on one side, negative on the other, 0 on the line
Side(p0, p1, cx, cy) == (p1.x - p0.x) * (cy - p0.y) - (p1.y - p0.y) * (cx - p0.x)

\* some point of the closed segment p0-p1 lies in the closed normalized
\* rectangle r: their extents overlap on both axes and the corners of the
\* rectangle are not all strictly on one side of the line of the segment
SegmentMeetsRect(r, p0, p1) ==
    LET n == rect_normalize(r)
        sides == {Side(p0, p1, cx, cy) : cx \in {n.tl.x, n.br.x}, cy \in {n.tl.y, n.br.y}}
    IN /\ Max(p0.x, p1.x) >= n.tl.x /\ Min(p0.x, p1.x) <= n.br.x
       /\ Max(p0.y, p1.y) >= n.tl.y /\ Min(p0.y, p1.y) <= n.br.y
       /\ ~(\A s \in sides : s > 0)
       /\ ~(\A s \in sides : s < 0)

\* C21: rect_clip_line(r, p0, p1) returns true exactly when some part of the
\* segment p0-p1 lies inside the normalized rectangle r, and when it returns
\* true both rewritten end points lie inside that rectangle.
C21_ClipLine ==
    (last.op = "rect_clip_line") =>
        /\ last.accept <=> SegmentMeetsRect(last.r, last.p0, last.p1)
        /\ last.accept =>
               /\ rect_contains_point(last.r, last.q0)
               /\ rect_contains_point(last.r, last.q1)

----------------------------------------------------------------------------
(* The input event ring buffer (lib/input/input.c)                          *)
(*                                                                          *)
(* enqueue_event is the producer (a button interrupt, plain_button_impl.c   *)
(* each_button_process), sync_poll the consumer (the main loop).  Each      *)
(* action below is one access of the code to head, tail or a queue slot,    *)
(* in program order, so that the producer runs between any two accesses of  *)
(* the consumer and the consumer between any two of the producer.           *)
(*                                                                          *)
(* The input context lives in last.context, the producer's and consumer's   *)
(* locals and positions in last.producer and last.consumer.  History:       *)
(*   nops    enqueue_event calls begun,                                     *)
(*   tx      ids of the events whose enqueue_event returned CFBD_TRUE,      *)
(*   direct  ids of the events sync_poll took from the ring,                *)
(*   calls   handler calls <<i, id read through the event pointer>>,        *)
(*   pre     the context before the last step.                              *)

\* slots of the ring: input_config.h sizes it, the model takes a small ring
INPUT_EVENT_QUEUE_SIZE == 3

\* length of the handler table, likewise from input_config.h
INPUT_MAX_HANDLER_CNT == 2

\* enqueue_event calls in one behaviour
MaxEvents == 4

\* uint8_t next = (context->tail + 1) % INPUT_EVENT_QUEUE_SIZE, and the same
\* expression for head in sync_poll
ring_next(i) == ((i + 1) % INPUT_EVENT_QUEUE_SIZE) % 256

ring_has_room_always(next, head) == TRUE

\* if (next != context->head)
ring_has_room(next, head) == next # head

\* a CFBDInputEvent: the model numbers the events; stop_propergate is the
\* field of that name
InputEvent(id, stop) == [id |-> id, stop_propergate |-> stop]

\* CFBD_CreateInputContext: no handler, head = tail = 0,
\* stop_propergate_if_failed false
CFBD_CreateInputContext ==
    [queue |-> [s \in 0..(INPUT_EVENT_QUEUE_SIZE - 1) |-> InputEvent(0, FALSE)],
     head |-> 0, tail |-> 0, handler_count |-> 0,
     stop_propergate_if_failed |-> FALSE]

InitInput ==
    /\ OLED_GRAM = ZeroGram(CACHED_WIDTH_130x, CACHED_HEIGHT_130x)
    /\ grey_scale = 0
    /\ immediate_draw = FALSE
    /\ pre = CFBD_CreateInputContext
    /\ last = [op |-> "CFBD_CreateInputContext",
               context |-> CFBD_CreateInputContext,
               producer |-> [pc |-> "idle", next |-> 0,
                             event |-> InputEvent(0, FALSE)],
               consumer |-> [pc |-> "test", event |-> 0, i |-> 0]]
    /\ acc = [row |-> -1, col |-> -1]
    /\ tx = <<>>
    /\ calls = <<>>
    /\ nops = 0
    /\ oled = UnboundOLED
    /\ device = UnboundDevice
    /\ bus = I2C_OK
    /\ direct = <<>>

InputFrame == UNCHANGED <<OLED_GRAM, grey_scale, immediate_draw, acc, oled, device, bus>>

\* input_register_handler, called by the main loop between two polls
\* (CFBD_CreatePlainButton registers the button's callback)
input_register_handler ==
    /\ last.consumer.pc = "test"
    /\ last.context.handler_count < INPUT_MAX_HANDLER_CNT
    /\ pre' = last.context
    /\ last' = [last EXCEPT !.op = "input_register_handler",
                            !.context.handler_count = @ + 1]
    /\ UNCHANGED <<tx, calls, nops, direct>>
    /\ InputFrame

\* the application sets the public field stop_propergate_if_failed
SetStopIfFailed ==
    /\ last.consumer.pc = "test"
    /\ ~last.context.stop_propergate_if_failed
    /\ pre' = last.context
    /\ last' = [last EXCEPT !.op = "stop_propergate_if_failed",
                            !.context.stop_propergate_if_failed = TRUE]
    /\ UNCHANGED <<tx, calls, nops, direct>>
    /\ InputFrame

\* enqueue_event, line 11: read tail and compute next.  The event is the
\* caller's; CFBD_PlainButtonEventMaker leaves its stop_propergate unset,
\* so the field holds either value
EnqueueReadTail ==
    /\ last.producer.pc = "idle"
    /\ nops < MaxEvents
    /\ \E stop \in BOOLEAN :
           last' = [last EXCEPT !.op = "enqueue_event_enter",
                                !.producer = [pc |-> "check",
                                              next |-> ring_next(last.context.tail),
                                              event |-> InputEvent(nops + 1, stop)]]
    /\ nops' = nops + 1
    /\ pre' = last.context
    /\ UNCHANGED <<tx, calls, direct>>
    /\ InputFrame

\* enqueue_event, line 12: compare next with head; lines 17-18: return
\* CFBD_FALSE when they are equal
EnqueueCheckHead ==
    /\ last.producer.pc = "check"
    /\ last' = [last EXCEPT
                   !.op = IF ring_has_room(last.producer.next, last.context.head)
                          THEN "enqueue_event_room" ELSE "enqueue_event_false",
                   !.producer.pc = IF ring_has_room(last.producer.next, last.context.head)
                                   THEN "store" ELSE "idle"]
    /\ pre' = last.context
    /\ UNCHANGED <<tx, calls, nops, direct>>
    /\ InputFrame

\* enqueue_event, line 13: context->queue[context->tail] = *event
EnqueueStoreSlot ==
    /\ last.producer.pc = "store"
    /\ last' = [last EXCEPT !.op = "enqueue_event_store",
                            !.context.queue[last.context.tail] = last.producer.event,
                            !.producer.pc = "publish"]
    /\ pre' = last.context
    /\ UNCHANGED <<tx, calls, nops, direct>>
    /\ InputFrame

\* enqueue_event, lines 14-15: context->tail = next; return CFBD_TRUE
EnqueueStoreTail ==
    /\ last.producer.pc = "publish"
    /\ last' = [last EXCEPT !.op = "enqueue_event_true",
                            !.context.tail = last.producer.next,
                            !.producer.pc = "idle"]
    /\ tx' = Append(tx, last.producer.event.id)
    /\ pre' = last.context
    /\ UNCHANGED <<calls, nops, direct>>
    /\ InputFrame

\* sync_poll, line 23: while (head != tail); line 24: event = &queue[head];
\* line 42: return CFBD_TRUE when the ring is empty.  With no handler the
\* for loop of line 26 ends at once
SyncPollTest ==
    /\ last.consumer.pc = "test"
    /\ IF last.context.head # last.context.tail
       THEN /\ last' = [last EXCEPT
                           !.op = "sync_poll_take",
                           !.consumer = [pc |-> IF last.context.handler_count > 0
                                                THEN "call" ELSE "advance",
                                         event |-> last.context.head, i |-> 0]]
            /\ direct' = Append(direct, last.context.queue[last.context.head].id)
       ELSE /\ last' = [last EXCEPT !.op = "sync_poll_return"]
            /\ direct' = direct
    /\ pre' = last.context
    /\ UNCHANGED <<tx, calls, nops>>
    /\ InputFrame

\* does the for loop of sync_poll end after handler i returned result, the
\* slot's stop_propergate being stop (lines 26-37)
handler_loop_ends(i, result, stop, ctx) ==
    \/ ~result /\ ctx.stop_propergate_if_failed
    \/ stop
    \/ i + 1 >= ctx.handler_count

\* sync_poll, lines 27-36: result = handlers[i](event).  The handler reads
\* the event through the pointer, returns either value and may call
\* CFBD_SetEventStopHandled(event)
SyncPollCallHandler ==
    /\ last.consumer.pc = "call"
    /\ \E result \in BOOLEAN, handled \in BOOLEAN :
           LET slot == last.consumer.event
               stop == last.context.queue[slot].stop_propergate \/ handled
           IN last' = [last EXCEPT
                          !.op = "sync_poll_handler",
                          !.context.queue[slot].stop_propergate = stop,
                          !.consumer.i = @ + 1,
                          !.consumer.pc = IF handler_loop_ends(last.consumer.i, result,
                                                               stop, last.context)
                                          THEN "advance" ELSE "call"]
    /\ calls' = Append(calls, <<last.consumer.i,
                                last.context.queue[last.consumer.event].id>>)
    /\ pre' = last.context
    /\ UNCHANGED <<tx, nops, direct>>
    /\ InputFrame

\* sync_poll, line 39: context->head = (context->head + 1) % INPUT_EVENT_QUEUE_SIZE
SyncPollAdvance ==
    /\ last.consumer.pc = "advance"
    /\ last' = [last EXCEPT !.op = "sync_poll_advance",
                            !.context.head = ring_next(last.context.head),
                            !.consumer.pc = "test"]
    /\ pre' = last.context
    /\ UNCHANGED <<tx, calls, nops, direct>>
    /\ InputFrame

NextInput ==
    \/ input_register_handler
    \/ SetStopIfFailed
    \/ EnqueueReadTail
    \/ EnqueueCheckHead
    \/ EnqueueStoreSlot
    \/ EnqueueStoreTail
    \/ SyncPollTest
    \/ SyncPollCallHandler
    \/ SyncPollAdvance

SpecInput == InitInput /\ [][NextInput]_vars

\* the ids in the slots from index a up to, not including, the tail
RECURSIVE ring_ids(_, _)
ring_ids(ctx, a) ==
    IF a = ctx.tail THEN <<>>
    ELSE <<ctx.queue[a].id>> \o ring_ids(ctx, ring_next(a))

\* sync_poll is between taking an event and advancing head
Dispatching == last.consumer.pc \in {"call", "advance"}

\* the events enqueued and not yet taken by sync_poll
PendingIds ==
    ring_ids(last.context,
             IF Dispatching THEN ring_next(last.context.head) ELSE last.context.head)

\* C30: with one enqueue_event and one sync_poll interleaved access by
\* access, the events whose enqueue_event returned true are, in that order,
\* the events sync_poll took followed by the events still in the ring, so
\* each is taken once and in enqueue order, and all of them when sync_poll
\* returns; each handler call sees the event taken, each handler is called
\* at most once per event and in index order; an enqueue_event that finds
\* next equal to head returns false and leaves queue, head and tail as
\* they were; and the slot being dispatched holds the event taken until head
\* is advanced.
C30_RingBuffer ==
    /\ tx = direct \o PendingIds
    /\ \A j \in 1..Len(tx) : tx[j] \in 1..nops /\ \A k \in 1..(j - 1) : tx[k] < tx[j]
    /\ last.op = "sync_poll_return" => direct = tx
    /\ Dispatching =>
           /\ last.consumer.event = last.context.head
           /\ last.context.queue[last.consumer.event].id = direct[Len(direct)]
    /\ \A j \in 1..Len(calls) :
           /\ calls[j][2] \in {direct[k] : k \in 1..Len(direct)}
           /\ \A k \in 1..(j - 1) :
                  \/ calls[k][2] < calls[j][2]
                  \/ calls[k][2] = calls[j][2] /\ calls[k][1] < calls[j][1]
    /\ Dispatching /\ Len(calls) > 0 => calls[Len(calls)][2] <= direct[Len(direct)]
    /\ last.op = "enqueue_event_false" =>
           /\ last.producer.next = last.context.head
           /\ last.context.queue = pre.queue
           /\ last.context.head = pre.head
           /\ last.context.tail = pre.tail
           /\ nops > Len(tx)

\* an event was refused on a full ring, and later, while sync_poll is
\* dispatching its second event or a later one, an enqueue_event has just
\* published an event by wrapping tail round to a smaller index than head
C30_Witness ==
    /\ last.op = "enqueue_event_true"
    /\ last.consumer.pc = "call"
    /\ Len(calls) > 0
    /\ Len(direct) >= 2
    /\ last.context.tail < last.context.head
    /\ nops > Len(tx)

====
